---------------------------- MODULE Spec2Model ----------------------------
(***************************************************************************)
(* Model of the calculator's history store (app/history/manager.py) and of *)
(* the commands that use it (the packages under app/plugins), and of the  *)
(* application that reads and dispatches the commands (app/__init__.py).   *)
(*                                                                         *)
(* Text is a sequence of one-character strings, so that str(), the CSV     *)
(* writer, the CSV reader and str.contains() are computed and not assumed. *)
(* A cell of the DataFrame is a tagged value:                              *)
(*   [t |-> "str",   s |-> text, n |-> 0]   a Python str                   *)
(*   [t |-> "int",   s |-> <<>>, n |-> k]   a Python/numpy integer k       *)
(*   [t |-> "float", s |-> <<>>, n |-> k]   the float k.0                  *)
(*   [t |-> "nan",   s |-> <<>>, n |-> 0]   the float NaN                  *)
(* Floats are the whole-valued ones, on which Python arithmetic is exact.  *)
(***************************************************************************)
EXTENDS Integers, Sequences, FiniteSets, TLC

VARIABLES instance,  \* HistoryManager._HistoryManager__instance is not None
          attrs,     \* the flag attributes in the instance's __dict__
          df,        \* self.df
          file,      \* the backing file self.history_file
          last,      \* the call that was made last: its name, its arguments
                     \* and the number of entries it found
          ret,       \* what that call returned: "True", "False", "None", or
                     \* a frame
          pc,        \* where the application is: "NEW" before App(), "INIT"
                     \* after it, then "READING_INPUT", "DISPATCHING", "EXITED"
          commands,  \* command_handler.commands: name |-> class of the command
          typed,     \* the text input() returned last
          command,   \* the variable command of App.start
          err,       \* what raised in the step made last: "None", "input",
                     \* "execute"
          log,       \* the command texts of the errors logged in App.start
          reads,     \* the lines input() returned that are not the exit token
          dispatched,\* the arguments execute_command was called with
          out,       \* loads: the number of load_plugins() calls; farewell:
                     \* the farewell is printed; status: the exit status of
                     \* the process, -1 while it runs
          environ,   \* os.environ: the settings that are set, name |-> text
          loader,    \* load_plugins() as it ran last: path, the directory it
                     \* enumerated; dir, the modules found there; log, the
                     \* errors it logged; made, the classes it instantiated
          user_input,\* what input() returned at the prompt of the history
                     \* command, or that it raised
          stdout     \* what the history command printed last

\* the state of the application
app == <<pc, commands, typed, command, err, log, reads, dispatched, out,
         environ, loader, user_input, stdout>>

\* the state of the loop of App.start
repl == <<pc, commands, typed, command, err, log, reads, dispatched, out>>

\* what the loop of App.start does not touch
aside == <<environ, loader, user_input, stdout>>

vars == <<instance, attrs, df, file, last, ret,
          pc, commands, typed, command, err, log, reads, dispatched, out,
          environ, loader, user_input, stdout>>

---------------------------------------------------------------------------
(* Bounds *)

MaxLen == 2        \* add no entry to a history of MaxLen entries
MaxNum == 2        \* the numbers typed at the prompts are 1.0 .. MaxNum.0
MaxClock == 0      \* datetime.now() reads second 0 .. MaxClock
MaxLines == 2      \* input() returns MaxLines lines before the exit token,
                   \* and raises MaxLines times
MaxRows == 11      \* the history command finds up to MaxRows entries in the
                   \* backing file

---------------------------------------------------------------------------
(* Text *)

Digit == <<"0", "1", "2", "3", "4", "5", "6", "7", "8", "9">>

RECURSIVE NatText(_)
NatText(n) ==
    IF n < 10 THEN <<Digit[n + 1]>>
    ELSE NatText(n \div 10) \o <<Digit[(n % 10) + 1]>>

\* str(k) of an integer
IntText(k) == IF k < 0 THEN <<"-">> \o NatText(-k) ELSE NatText(k)

\* repr(x) of the float k.0
FloatText(k) == IntText(k) \o <<".", "0">>

DigitVal(c) == CHOOSE d \in 0..9 : Digit[d + 1] = c

IsDigits(s) == Len(s) > 0 /\ \A i \in 1..Len(s) : \E d \in 1..10 : Digit[d] = s[i]

RECURSIVE NatVal(_)
NatVal(s) ==
    IF Len(s) = 0 THEN 0
    ELSE 10 * NatVal(SubSeq(s, 1, Len(s) - 1)) + DigitVal(s[Len(s)])

Unsigned(s) == IF Len(s) > 0 /\ s[1] = "-" THEN Tail(s) ELSE s

\* the text is a decimal integer literal
IsIntText(s) == IsDigits(Unsigned(s))

\* the text is a decimal literal with a fraction of zeros, such as 3.0
IsFloatText(s) ==
    LET u == Unsigned(s)
    IN  \E p \in 2..(Len(u) - 1) :
            /\ u[p] = "."
            /\ IsDigits(SubSeq(u, 1, p - 1))
            /\ \A i \in (p + 1)..Len(u) : u[i] = "0"

NumVal(s) ==
    LET u == Unsigned(s)
        p == IF IsIntText(s) THEN Len(u) + 1
             ELSE CHOOSE q \in 1..Len(u) : u[q] = "."
        v == NatVal(SubSeq(u, 1, p - 1))
    IN  IF Len(s) > 0 /\ s[1] = "-" THEN -v ELSE v

\* str.lower() on the letters that occur
Lower(c) ==
    CASE c = "A" -> "a"
      [] c = "D" -> "d"
      [] c = "N" -> "n"
      [] c = "E" -> "e"
      [] c = "X" -> "x"
      [] c = "I" -> "i"
      [] c = "T" -> "t"
      [] c = "L" -> "l"
      [] OTHER -> c

---------------------------------------------------------------------------
(* Cells *)

StrCell(s) == [t |-> "str", s |-> s, n |-> 0]
IntCell(k) == [t |-> "int", s |-> <<>>, n |-> k]
FloatCell(k) == [t |-> "float", s |-> <<>>, n |-> k]
NaNCell == [t |-> "nan", s |-> <<>>, n |-> 0]

\* str(x), which astype(str) applies to every cell
StrOf(c) ==
    CASE c.t = "str" -> c.s
      [] c.t = "int" -> IntText(c.n)
      [] c.t = "float" -> FloatText(c.n)
      [] OTHER -> <<"n", "a", "n">>

\* the text DataFrame.to_csv writes for a cell: a missing value is empty
CsvOf(c) == IF c.t = "nan" THEN <<>> ELSE StrOf(c)

---------------------------------------------------------------------------
(* The column names and the operation names, as text *)

c_timestamp == <<"t", "i", "m", "e", "s", "t", "a", "m", "p">>
c_operation == <<"o", "p", "e", "r", "a", "t", "i", "o", "n">>
c_inputs == <<"i", "n", "p", "u", "t", "s">>
c_result == <<"r", "e", "s", "u", "l", "t">>

\* self.columns
Columns == <<c_timestamp, c_operation, c_inputs, c_result>>

s_add == <<"a", "d", "d">>
s_sub == <<"s", "u", "b">>
s_multiply == <<"m", "u", "l", "t", "i", "p", "l", "y">>
s_NA == <<"N", "A">>
s_history == <<"h", "i", "s", "t", "o", "r", "y">>
s_menu == <<"m", "e", "n", "u">>
s_exit == <<"e", "x", "i", "t">>
s_unknown == <<"<", "u", "n", "k", "n", "o", "w", "n", ">">>
s_extra == <<"e", "x", "t", "r", "a">>
s_greet == <<"g", "r", "e", "e", "t">>
s_show == <<"s", "h", "o", "w">>
s_clear == <<"c", "l", "e", "a", "r">>
s_delete == <<"d", "e", "l", "e", "t", "e">>
s_save == <<"s", "a", "v", "e">>
s_search == <<"s", "e", "a", "r", "c", "h">>

---------------------------------------------------------------------------
(* DataFrame: [columns |-> the column names, rows |-> the rows], a row     *)
(* being the sequence of its cells in the order of the columns.            *)

\* pd.DataFrame(columns=cols)
EmptyFrame(cols) == [columns |-> cols, rows |-> <<>>]

\* pd.DataFrame()
NoFrame == [columns |-> <<>>, rows |-> <<>>]

ColIndex(cols, name) ==
    IF \E j \in 1..Len(cols) : cols[j] = name
    THEN CHOOSE j \in 1..Len(cols) : cols[j] = name
    ELSE 0

RECURSIVE ColumnUnion(_, _)
\* the columns of a concatenation: those of the first frame, then the new ones
ColumnUnion(a, b) ==
    IF Len(b) = 0 THEN a
    ELSE IF ColIndex(a, Head(b)) # 0 THEN ColumnUnion(a, Tail(b))
    ELSE ColumnUnion(Append(a, Head(b)), Tail(b))

\* a row of a frame with columns from, laid out for the columns to
Realign(row, from, to) ==
    [j \in 1..Len(to) |->
        IF ColIndex(from, to[j]) # 0 THEN row[ColIndex(from, to[j])] ELSE NaNCell]

\* the common dtype of a column: integers become floats next to a float or
\* a missing value, unless a str makes the column an object column
Upcast(rows, j) ==
    LET col == {rows[i][j] : i \in 1..Len(rows)}
        numeric == \A c \in col : c.t # "str"
        floating == \E c \in col : c.t \in {"float", "nan"}
    IN  [i \in 1..Len(rows) |->
            IF numeric /\ floating /\ rows[i][j].t = "int"
            THEN [rows[i] EXCEPT ![j] = FloatCell(rows[i][j].n)]
            ELSE rows[i]]

RECURSIVE UpcastAll(_, _)
UpcastAll(rows, j) ==
    LET up == Upcast(rows, j)
    IN  IF j = 0 THEN rows ELSE UpcastAll(up, j - 1)

\* Concat with the new row put first
ConcatFront(d, new_row) ==
    LET cols == ColumnUnion(d.columns, Columns)
        old == [i \in 1..Len(d.rows) |-> Realign(d.rows[i], d.columns, cols)]
        all == <<Realign(new_row, Columns, cols)>> \o old
    IN  [columns |-> cols, rows |-> UpcastAll(all, Len(cols))]

\* pd.concat([d, pd.DataFrame([new_row])], ignore_index=True), new_row being
\* a dict with the keys Columns
Concat(d, new_row) ==
    LET cols == ColumnUnion(d.columns, Columns)
        old == [i \in 1..Len(d.rows) |-> Realign(d.rows[i], d.columns, cols)]
        all == Append(old, Realign(new_row, Columns, cols))
    IN  [columns |-> cols, rows |-> UpcastAll(all, Len(cols))]

\* df.tail(n) for n > 0
DfTail(d, n) ==
    LET k == IF n < Len(d.rows) THEN n ELSE Len(d.rows)
    IN  [columns |-> d.columns,
         rows |-> [i \in 1..k |-> d.rows[Len(d.rows) - k + i]]]

\* DropRow taking the index as a one-based position
DropRowOneBased(d, index) ==
    [columns |-> d.columns,
     rows |-> [i \in 1..(Len(d.rows) - 1) |->
                 IF i < index THEN d.rows[i] ELSE d.rows[i + 1]]]

\* df.drop(index).reset_index(drop=True), index being a label of the
\* RangeIndex 0 .. len-1
DropRow(d, index) ==
    [columns |-> d.columns,
     rows |-> [i \in 1..(Len(d.rows) - 1) |->
                 IF i <= index THEN d.rows[i] ELSE d.rows[i + 1]]]

---------------------------------------------------------------------------
(* The CSV file: [exists |-> BOOLEAN, lines |-> the lines of text, the     *)
(* header line first]                                                      *)

NoFile == [exists |-> FALSE, lines |-> <<>>]

Has(s, ch) == \E i \in 1..Len(s) : s[i] = ch

RECURSIVE DoubleQuotes(_)
DoubleQuotes(s) ==
    IF Len(s) = 0 THEN <<>>
    ELSE (IF Head(s) = "\"" THEN <<"\"", "\"">> ELSE <<Head(s)>>)
         \o DoubleQuotes(Tail(s))

\* csv.QUOTE_MINIMAL: a field holding the delimiter or a quote is quoted
Quote(s) ==
    IF Has(s, ",") \/ Has(s, "\"")
    THEN <<"\"">> \o DoubleQuotes(s) \o <<"\"">>
    ELSE s

RECURSIVE WriteLine(_)
\* one line of the file: the fields, joined by commas
WriteLine(fields) ==
    IF Len(fields) = 0 THEN <<>>
    ELSE IF Len(fields) = 1 THEN Quote(fields[1])
    ELSE Quote(Head(fields)) \o <<",">> \o WriteLine(Tail(fields))

\* ToCsv writing the index as a first column without a name
ToCsvWithIndex(d) ==
    [exists |-> TRUE,
     lines |-> <<WriteLine(<<<<>>>> \o d.columns)>> \o
               [i \in 1..Len(d.rows) |->
                   WriteLine(<<IntText(i - 1)>> \o
                             [j \in 1..Len(d.columns) |-> CsvOf(d.rows[i][j])])]]

\* df.to_csv(path, index=False)
ToCsv(d) ==
    [exists |-> TRUE,
     lines |-> <<WriteLine(d.columns)>> \o
               [i \in 1..Len(d.rows) |->
                   WriteLine([j \in 1..Len(d.columns) |-> CsvOf(d.rows[i][j])])]]

RECURSIVE Undouble(_)
\* a doubled quote inside a quoted field is one quote
Undouble(s) ==
    IF ~Has(s, "\"") THEN s
    ELSE IF Len(s) >= 2 /\ s[1] = "\"" /\ s[2] = "\""
         THEN <<"\"">> \o Undouble(SubSeq(s, 3, Len(s)))
         ELSE <<Head(s)>> \o Undouble(Tail(s))

\* the text of a field as it stands in the line
Unquote(s) ==
    IF Len(s) >= 2 /\ s[1] = "\"" THEN Undouble(SubSeq(s, 2, Len(s) - 1)) ELSE s

RECURSIVE ParseFrom(_, _, _, _, _)
\* the fields of a line from position i on, the current field having begun
\* at start: a comma outside quotes ends a field
ParseFrom(line, i, start, quoted, acc) ==
    IF i > Len(line) THEN Append(acc, Unquote(SubSeq(line, start, Len(line))))
    ELSE IF line[i] = "\"" THEN ParseFrom(line, i + 1, start, ~quoted, acc)
    ELSE IF line[i] = "," /\ ~quoted
         THEN ParseFrom(line, i + 1, i + 1, FALSE,
                        Append(acc, Unquote(SubSeq(line, start, i - 1))))
    ELSE ParseFrom(line, i + 1, start, quoted, acc)

ParseLine(line) == ParseFrom(line, 1, 1, FALSE, <<>>)

\* the texts pd.read_csv reads as a missing value (keep_default_na), over
\* the characters that occur
NaTexts ==
    {<<>>, <<"N", "A">>, <<"N", "a", "N">>, <<"n", "a", "n">>,
     <<"N", "/", "A">>, <<"n", "/", "a">>,
     <<"N", "U", "L", "L">>, <<"n", "u", "l", "l">>}

\* the cells of column j of the parsed fields, by the reader's inference:
\* int64 when every field is an integer, float64 when every field is a
\* number or missing, else object with the texts kept
InferColumn(fields, j) ==
    LET col == [i \in 1..Len(fields) |-> fields[i][j]]
        present == {i \in 1..Len(fields) : col[i] \notin NaTexts}
        allInt == present = 1..Len(fields) /\ \A i \in present : IsIntText(col[i])
        allNum == \A i \in present : IsIntText(col[i]) \/ IsFloatText(col[i])
    IN  [i \in 1..Len(fields) |->
            IF i \notin present THEN NaNCell
            ELSE IF allInt THEN IntCell(NumVal(col[i]))
            ELSE IF allNum THEN FloatCell(NumVal(col[i]))
            ELSE StrCell(col[i])]

\* the fields of every line of the file
ParseLines(f) == [i \in 1..Len(f.lines) |-> ParseLine(f.lines[i])]

\* pd.read_csv(path) does not raise on the parsed lines: there is a header
\* line and no line has more fields than the header
Readable(parsed) ==
    /\ Len(parsed) > 0
    /\ \A i \in 2..Len(parsed) : Len(parsed[i]) <= Len(parsed[1])

\* the frame pd.read_csv(path) makes of the parsed lines
FrameOf(parsed) ==
    LET cols == parsed[1]
        fields == [i \in 1..(Len(parsed) - 1) |->
                     [j \in 1..Len(cols) |->
                        IF j <= Len(parsed[i + 1]) THEN parsed[i + 1][j] ELSE <<>>]]
        column == [j \in 1..Len(cols) |-> InferColumn(fields, j)]
    IN  [columns |-> cols,
         rows |-> [i \in 1..Len(fields) |-> [j \in 1..Len(cols) |-> column[j][i]]]]

\* pd.read_csv(path) of a file it can read
ReadCsv(f) ==
    LET parsed == ParseLines(f)
    IN  FrameOf(parsed)

---------------------------------------------------------------------------
(* Series.str.contains(term, case=False): term is a regular expression.    *)
(* Of the pattern syntax, the model has the literal characters, the dot    *)
(* and the opening bracket of a character set.                             *)

\* re.compile(term) succeeds: no character set is left open
ValidPattern(term) ==
    \A i \in 1..Len(term) :
        term[i] = "[" => \E k \in (i + 1)..Len(term) : term[k] = "]"

\* the pattern matches the text at position k, ignoring case
MatchAt(term, text, k) ==
    /\ k + Len(term) - 1 <= Len(text)
    /\ \A i \in 1..Len(term) :
          term[i] = "." \/ Lower(term[i]) = Lower(text[k + i - 1])

\* re.search(term, text, re.IGNORECASE) finds a match
Contains(term, text) == \E k \in 1..(Len(text) + 1) : MatchAt(term, text, k)

\* row.str.contains(term, case=False).any() on the row of str_df
RowContains(term, row) == \E j \in 1..Len(row) : Contains(term, StrOf(row[j]))

RECURSIVE Masked(_, _)
\* the rows whose mask is true, in their order
Masked(rows, term) ==
    IF Len(rows) = 0 THEN <<>>
    ELSE (IF RowContains(term, Head(rows)) THEN <<Head(rows)>> ELSE <<>>)
         \o Masked(Tail(rows), term)

---------------------------------------------------------------------------
(* The environment and the configuration *)

\* os.environ with none of the settings
NoEnviron == [k \in {} |-> <<>>]

\* os.environ.get(key, default)
Getenv(env, key, default) == IF key \in DOMAIN env THEN env[key] ELSE default

\* 'data/calculation_history.csv'
DefaultHistoryFile ==
    <<"d", "a", "t", "a", "/", "c", "a", "l", "c", "u", "l", "a", "t", "i",
      "o", "n", "_", "h", "i", "s", "t", "o", "r", "y", ".", "c", "s", "v">>

\* 'app/plugins'
DefaultPluginsDir == <<"a", "p", "p", "/", "p", "l", "u", "g", "i", "n", "s">>

\* the entries HISTORY_FILE and PLUGINS_DIR of the dict load_config()
\* returns
load_config(env) ==
    [HISTORY_FILE |-> Getenv(env, "HISTORY_FILE", DefaultHistoryFile),
     PLUGINS_DIR |-> Getenv(env, "PLUGINS_DIR", DefaultPluginsDir)]

\* self.history_file as __init__ sets it
HistoryFile(env) == Getenv(env, "HISTORY_FILE", DefaultHistoryFile)

---------------------------------------------------------------------------
(* HistoryManager *)

\* the name a private attribute gets inside the class body
Mangled(name) == <<"_HistoryManager", name>>

\* the name as it stands in a string literal
Literal(name) == <<name>>

\* getattr(self, name, default)
GetAttr(a, name, default) == IF name \in DOMAIN a THEN a[name] ELSE default

\* setattr(self, name, value)
SetAttr(a, name, value) ==
    [k \in DOMAIN a \cup {name} |-> IF k = name THEN value ELSE a[k]]

Pad2(n) == <<Digit[(n \div 10) + 1], Digit[(n % 10) + 1]>>

\* datetime.now().strftime("%Y-%m-%d %H:%M:%S") at second t of the first
\* minute of 2000-01-01
Strftime(t) ==
    <<"2", "0", "0", "0", "-", "0", "1", "-", "0", "1", " ",
      "0", "0", ":", "0", "0", ":">> \o Pad2(t)

RECURSIVE JoinReprs(_)
JoinReprs(xs) ==
    IF Len(xs) = 0 THEN <<>>
    ELSE IF Len(xs) = 1 THEN StrOf(xs[1])
    ELSE StrOf(Head(xs)) \o <<",", " ">> \o JoinReprs(Tail(xs))

\* str(inputs) of a list of numbers
ListText(xs) == <<"[">> \o JoinReprs(xs) \o <<"]">>

\* _load_history: the frame it leaves in self.df, or the exception
load_history(f) ==
    LET parsed == ParseLines(f)
    IN  IF f.exists
        THEN IF Readable(parsed)
             THEN [raised |-> FALSE, df |-> FrameOf(parsed)]
             ELSE [raised |-> TRUE, df |-> NoFrame]
        ELSE [raised |-> FALSE, df |-> EmptyFrame(Columns)]

\* the guard of __init__: not getattr(self, '__initialized', False)
NeedsInit(a) == ~GetAttr(a, Literal("__initialized"), FALSE)

\* InitDf with an except clause that does not assign self.df
InitDfKeep(a, d, f) ==
    LET loaded == load_history(f)
    IN  IF NeedsInit(a)
        THEN IF loaded.raised THEN d ELSE loaded.df
        ELSE d

\* self.df after HistoryManager(): __new__, then __init__
InitDf(a, d, f) ==
    LET loaded == load_history(f)
    IN  IF NeedsInit(a)
        THEN IF loaded.raised THEN EmptyFrame(Columns) ELSE loaded.df
        ELSE d

\* the instance's flags after __new__
NewAttrs(inst, a) ==
    IF inst = 0 THEN SetAttr(a, Mangled("__initialized"), FALSE) ELSE a

\* the instance's flags after __init__
InitAttrs(a) ==
    IF NeedsInit(a)
    THEN SetAttr(SetAttr(a, Literal("history_file"), HistoryFile(environ)),
                 Mangled("__initialized"), TRUE)
    ELSE a

\* HistoryManager.__new__: the number of objects ever created
New(inst) == IF inst = 0 THEN 1 ELSE inst

\* HistoryManager()
Construct ==
    /\ instance' = New(instance)
    /\ attrs' = InitAttrs(NewAttrs(instance, attrs))
    /\ df' = InitDf(NewAttrs(instance, attrs), df, file)
    /\ last' = [op |-> "construct", arg |-> <<>>, n |-> Len(df.rows)]
    /\ ret' = "instance"
    /\ UNCHANGED file

\* the Python value of a condition, as a return value
Bool(b) == IF b THEN "True" ELSE "False"

\* the optional argument of get_history
None == [some |-> FALSE, v |-> 0]
Some(v) == [some |-> TRUE, v |-> v]

\* the row add_calculation builds
NewRow(t, operation, inputs, result) ==
    <<StrCell(Strftime(t)), StrCell(operation), StrCell(ListText(inputs)), result>>

\* self.df after add_calculation(operation, inputs, result)
AddedDf(d, t, operation, inputs, result) ==
    LET new_row == NewRow(t, operation, inputs, result)
    IN  Concat(d, new_row)

\* add_calculation saving the history on its own
add_calculation_autosave(t, operation, inputs, result) ==
    /\ instance > 0
    /\ Len(df.rows) < MaxLen
    /\ df' = AddedDf(df, t, operation, inputs, result)
    /\ file' = ToCsv(df')
    /\ last' = [op |-> "add_calculation", arg |-> <<operation, inputs, result>>, n |-> Len(df.rows)]
    /\ ret' = Bool(TRUE)
    /\ UNCHANGED <<instance, attrs>>

\* add_calculation(operation, inputs, result), the clock reading second t
add_calculation(t, operation, inputs, result) ==
    /\ instance > 0
    /\ Len(df.rows) < MaxLen
    /\ df' = AddedDf(df, t, operation, inputs, result)
    /\ last' = [op |-> "add_calculation", arg |-> <<operation, inputs, result>>, n |-> Len(df.rows)]
    /\ ret' = Bool(TRUE)
    /\ UNCHANGED <<instance, attrs, file>>

\* AddFailReturn of an except clause that has no return statement
AddFailReturnNone == "None"

\* what add_calculation returns from its except clause
AddFailReturn == "False"

\* add_calculation(operation, inputs, result) when the append raises: the
\* except clause logs the error and returns, self.df is not assigned
add_calculation_raised(operation, inputs, result) ==
    /\ instance > 0
    /\ last' = [op |-> "add_calculation raised",
                arg |-> <<operation, inputs, result>>, n |-> Len(df.rows)]
    /\ ret' = AddFailReturn
    /\ UNCHANGED <<instance, attrs, df, file>>

\* the file after save_history(); ok: the directory can be made and the
\* file written
RECURSIVE RStripSlashes(_)
\* head.rstrip('/')
RStripSlashes(s) ==
    IF Len(s) > 0 /\ s[Len(s)] = "/"
    THEN RStripSlashes(SubSeq(s, 1, Len(s) - 1))
    ELSE s

\* os.path.dirname(path): the path up to its last slash, without the
\* slashes at its end unless it has nothing else
Dirname(path) ==
    LET slashes == {i \in 1..Len(path) : path[i] = "/"}
    IN  IF slashes = {} THEN <<>>
        ELSE LET k == CHOOSE i \in slashes : \A j \in slashes : j <= i
                 head == SubSeq(path, 1, k)
             IN  IF \A i \in 1..k : head[i] = "/" THEN head
                 ELSE RStripSlashes(head)

\* os.makedirs(name, exist_ok=True) raises FileNotFoundError for the
\* empty name
MakedirsRaises(name) == Len(name) = 0

\* the try block of save_history runs to its end: makedirs of the
\* directory of the file does not raise and to_csv can write
Saves(ok) == ok /\ ~MakedirsRaises(Dirname(HistoryFile(environ)))

SavedFile(f, d, ok) == IF Saves(ok) THEN ToCsv(d) ELSE f

\* save_history()
save_history(ok) ==
    /\ instance > 0
    /\ file' = SavedFile(file, df, ok)
    /\ last' = [op |-> "save_history", arg |-> <<>>, n |-> Len(df.rows)]
    /\ ret' = Bool(Saves(ok))
    /\ UNCHANGED <<instance, attrs, df>>

\* GetHistory taking the tail for every limit that is not negative
GetHistoryNonNeg(d, limit) ==
    IF limit.some /\ limit.v >= 0 THEN DfTail(d, limit.v) ELSE d

GetHistory(d, limit) ==
    IF limit.some /\ limit.v # 0 /\ limit.v > 0 THEN DfTail(d, limit.v) ELSE d

\* get_history(limit) taking the tail in place
get_history_inplace(limit) ==
    /\ instance > 0
    /\ df' = GetHistory(df, limit)
    /\ last' = [op |-> "get_history", arg |-> limit, n |-> Len(df.rows)]
    /\ ret' = df'
    /\ UNCHANGED <<instance, attrs, file>>

\* get_history(limit)
get_history(limit) ==
    /\ instance > 0
    /\ last' = [op |-> "get_history", arg |-> limit, n |-> Len(df.rows)]
    /\ ret' = GetHistory(df, limit)
    /\ UNCHANGED <<instance, attrs, df, file>>

\* what clear_history() returns when nothing fails: it has no return
\* statement on that path
ClearReturn == "None"

\* a return value is true in a condition
Truthy(x) == x = "True"

\* ClearedDf without the columns
ClearedDfNoColumns == NoFrame

\* self.df after clear_history()
ClearedDf == EmptyFrame(Columns)

\* clear_history(): the success path ends without a return statement
clear_history ==
    /\ instance > 0
    /\ df' = ClearedDf
    /\ last' = [op |-> "clear_history", arg |-> <<>>, n |-> Len(df.rows)]
    /\ ret' = ClearReturn
    /\ UNCHANGED <<instance, attrs, file>>

\* InRange without the lower bound
InRangeNoLower(index, d) == index < Len(d.rows)

\* the range test of delete_entry
InRange(index, d) == 0 <= index /\ index < Len(d.rows)

\* delete_entry(index)
delete_entry(index) ==
    /\ instance > 0
    /\ df' = IF InRange(index, df) THEN DropRow(df, index) ELSE df
    /\ last' = [op |-> "delete_entry", arg |-> index, n |-> Len(df.rows)]
    /\ ret' = Bool(InRange(index, df))
    /\ UNCHANGED <<instance, attrs, file>>

\* the frame search_history(term) returns: self.df[mask], or an empty
\* frame when the pattern does not compile
SearchHistory(d, term) ==
    IF Len(d.rows) > 0 /\ ~ValidPattern(term) THEN NoFrame
    ELSE [columns |-> d.columns, rows |-> Masked(d.rows, term)]

\* search_history(term)
search_history(term) ==
    /\ instance > 0
    /\ last' = [op |-> "search_history", arg |-> term, n |-> Len(df.rows)]
    /\ ret' = SearchHistory(df, term)
    /\ UNCHANGED <<instance, attrs, df, file>>

---------------------------------------------------------------------------
(* The store, driven through its methods *)

\* the calls of add_calculation that are made: the sample of App.__init__
\* and a call with floats
Calls ==
    {<<s_add, <<IntCell(1), IntCell(2)>>, IntCell(3)>>,
     <<s_sub, <<FloatCell(1), FloatCell(2)>>, FloatCell(-1)>>}

\* the search terms: an operation name, the same in capitals, a numeric
\* fragment, a dot, an opening bracket with a digit, and an absent term
Terms ==
    {s_add, <<"A", "D", "D">>, <<"3">>, <<".">>, <<"[", "1">>, <<"z", "z">>}

Limits == {None} \cup {Some(v) : v \in -1..(MaxLen + 1)}

Indexes == -1..(MaxLen + 1)

Clock == 0..MaxClock

\* the second a timestamp text names, 0 for any other text
SecondsOf(text) ==
    IF Len(text) = 19 /\ IsDigits(SubSeq(text, 18, 19))
    THEN NatVal(SubSeq(text, 18, 19))
    ELSE 0

\* the latest second among the timestamps of the entries of d
Latest(d) ==
    LET j == ColIndex(d.columns, c_timestamp)
        S == {0} \cup {SecondsOf(d.rows[i][j].s) : i \in {k \in 1..Len(d.rows) : j # 0}}
    IN  CHOOSE m \in S : \A k \in S : k <= m

\* the seconds datetime.now() can read when the entries of d exist: the
\* clock does not run backwards
Now(d) == {t \in Clock : t >= Latest(d)}

\* the backing file when the process starts: absent, or left by an earlier
\* run with no entry or with one entry
InitFiles ==
    {NoFile,
     ToCsv(EmptyFrame(Columns)),
     ToCsv(Concat(EmptyFrame(Columns),
                  NewRow(0, s_sub, <<FloatCell(1), FloatCell(2)>>, FloatCell(-1))))}

\* load_plugins() before it ran
NotLoaded == [path |-> <<>>, dir |-> <<>>, log |-> <<>>, made |-> <<>>]

\* the history command before it printed
Silent == [msg |-> "", n |-> 0, rows |-> <<>>]

\* the application before App() is called
NotStarted ==
    /\ pc = "NEW"
    /\ commands = <<>>
    /\ typed = <<>>
    /\ command = <<>>
    /\ err = "None"
    /\ log = <<>>
    /\ reads = <<>>
    /\ dispatched = <<>>
    /\ out = [loads |-> 0, farewell |-> FALSE, status |-> -1]
    /\ loader = NotLoaded
    /\ user_input = [raised |-> FALSE, text |-> <<>>]
    /\ stdout = Silent

Init ==
    /\ instance = 0
    /\ attrs = [k \in {} |-> FALSE]
    /\ df = NoFrame
    /\ file \in InitFiles
    /\ last = [op |-> "start", arg |-> <<>>, n |-> 0]
    /\ ret = "None"
    /\ environ = NoEnviron
    /\ NotStarted

\* the methods called on the store directly, the application not running
NewHistoryManager == Construct /\ UNCHANGED app

AddCalculation ==
    /\ \E t \in Now(df), c \in Calls : add_calculation(t, c[1], c[2], c[3])
    /\ UNCHANGED app

AddCalculationRaised ==
    /\ \E c \in Calls : add_calculation_raised(c[1], c[2], c[3])
    /\ UNCHANGED app

SaveHistory == (\E ok \in BOOLEAN : save_history(ok)) /\ UNCHANGED app

GetHistoryCall == (\E limit \in Limits : get_history(limit)) /\ UNCHANGED app

ClearHistory == clear_history /\ UNCHANGED app

DeleteEntry == (\E index \in Indexes : delete_entry(index)) /\ UNCHANGED app

SearchHistoryCall == (\E term \in Terms : search_history(term)) /\ UNCHANGED app

Next ==
    \/ NewHistoryManager
    \/ AddCalculation
    \/ AddCalculationRaised
    \/ SaveHistory
    \/ GetHistoryCall
    \/ ClearHistory
    \/ DeleteEntry
    \/ SearchHistoryCall

Spec == Init /\ [][Next]_vars

---------------------------------------------------------------------------
(* The commands *)

\* the numbers get_float returns: the floats 1.0 .. MaxNum.0
Numbers == 1..MaxNum

\* execute() of an arithmetic command after a and b are read and the
\* result is computed: HistoryManager(), add_calculation, save_history
execute(cmd, operation, t, a, b, result, ok) ==
    \E loaded \in {InitDf(NewAttrs(instance, attrs), df, file)} :
    \E added \in {AddedDf(loaded, t, operation,
                          <<FloatCell(a), FloatCell(b)>>, FloatCell(result))} :
        /\ Len(loaded.rows) < MaxLen
        /\ t \in Now(loaded)
        /\ instance' = New(instance)
        /\ attrs' = InitAttrs(NewAttrs(instance, attrs))
        /\ df' = added
        /\ file' = SavedFile(file, added, ok)
        /\ last' = [op |-> cmd, arg |-> <<a, b>>, n |-> Len(df.rows)]
        /\ ret' = "None"

\* AddCommand.execute
AddCommand(t, a, b, ok) == execute("AddCommand", s_add, t, a, b, a + b, ok)

\* SubCommand.execute
SubCommand(t, a, b, ok) == execute("SubCommand", s_sub, t, a, b, a - b, ok)

\* MultiplyCommand.execute
MultiplyCommand(t, a, b, ok) ==
    execute("MultiplyCommand", s_multiply, t, a, b, a * b, ok)

\* HistoryCommand._clear_history: the history is saved if clear_history()
\* returned a true value, and it returns None
HistoryClear(ok) ==
    /\ instance > 0
    /\ df' = ClearedDf
    /\ file' = IF Truthy(ClearReturn) THEN SavedFile(file, ClearedDf, ok) ELSE file
    /\ last' = [op |-> "history clear", arg |-> <<>>, n |-> Len(df.rows)]
    /\ ret' = "None"
    /\ UNCHANGED <<instance, attrs>>

\* _delete_entry that leaves the file as it is
HistoryDeleteUnsaved(index, ok) ==
    /\ instance > 0
    /\ df' = IF InRange(index, df) THEN DropRow(df, index) ELSE df
    /\ file' = file
    /\ last' = [op |-> "history delete", arg |-> index, n |-> Len(df.rows)]
    /\ ret' = "None"
    /\ UNCHANGED <<instance, attrs>>

\* HistoryCommand._delete_entry: the history is saved if the entry was
\* deleted
HistoryDelete(index, ok) ==
    /\ instance > 0
    /\ df' = IF InRange(index, df) THEN DropRow(df, index) ELSE df
    /\ file' = IF InRange(index, df) THEN SavedFile(file, df', ok) ELSE file
    /\ last' = [op |-> "history delete", arg |-> index, n |-> Len(df.rows)]
    /\ ret' = "None"
    /\ UNCHANGED <<instance, attrs>>

\* HistoryCommand._save_history
HistorySave(ok) ==
    /\ instance > 0
    /\ file' = SavedFile(file, df, ok)
    /\ last' = [op |-> "history save", arg |-> <<>>, n |-> Len(df.rows)]
    /\ ret' = "None"
    /\ UNCHANGED <<instance, attrs, df>>

(* The commands at the prompt, on a file system that does not fail *)

AddCmd ==
    /\ \E t \in Clock, a \in Numbers, b \in Numbers : AddCommand(t, a, b, TRUE)
    /\ UNCHANGED app

SubCmd ==
    /\ \E t \in Clock, a \in Numbers, b \in Numbers : SubCommand(t, a, b, TRUE)
    /\ UNCHANGED app

MultiplyCmd ==
    /\ \E t \in Clock, a \in Numbers, b \in Numbers : MultiplyCommand(t, a, b, TRUE)
    /\ UNCHANGED app

HistoryClearCmd == HistoryClear(TRUE) /\ UNCHANGED app

HistoryDeleteCmd ==
    (\E index \in Indexes : HistoryDelete(index, TRUE)) /\ UNCHANGED app

HistorySaveCmd == HistorySave(TRUE) /\ UNCHANGED app

NextCmd ==
    \/ NewHistoryManager
    \/ AddCmd
    \/ SubCmd
    \/ MultiplyCmd
    \/ HistoryClearCmd
    \/ HistoryDeleteCmd
    \/ HistorySaveCmd

SpecCmd == Init /\ [][NextCmd]_vars

(* The store with calls of any operation name, saved and loaded *)

CallsAny == Calls \cup {<<s_NA, <<IntCell(1), IntCell(2)>>, IntCell(3)>>}

AddAnyCalculation ==
    /\ \E t \in Now(df), c \in CallsAny : add_calculation(t, c[1], c[2], c[3])
    /\ UNCHANGED app

NextRoundTrip ==
    \/ NewHistoryManager
    \/ AddAnyCalculation
    \/ SaveHistory

SpecRoundTrip == Init /\ [][NextRoundTrip]_vars

(* The store on any backing file: one left by an earlier run, one with    *)
(* another header, an empty one, and one with a line of five fields        *)

OtherFile ==
    [exists |-> TRUE, lines |-> <<<<"a", ",", "b">>, <<"1", ",", "2">>>>]

EmptyFile == [exists |-> TRUE, lines |-> <<>>]

RaggedFile ==
    [exists |-> TRUE,
     lines |-> <<WriteLine(Columns),
                 <<"1", ",", "2", ",", "3", ",", "4", ",", "5">>>>]

AnyFiles == InitFiles \cup {OtherFile, EmptyFile, RaggedFile}

InitLoad ==
    /\ instance = 0
    /\ attrs = [k \in {} |-> FALSE]
    /\ df = NoFrame
    /\ file \in AnyFiles
    /\ last = [op |-> "start", arg |-> <<>>, n |-> 0]
    /\ ret = "None"
    /\ environ = NoEnviron
    /\ NotStarted

NextLoad ==
    \/ NewHistoryManager
    \/ AddCalculation
    \/ DeleteEntry
    \/ ClearHistory
    \/ SaveHistory

SpecLoad == InitLoad /\ [][NextLoad]_vars

---------------------------------------------------------------------------
(* The application: App.__init__, App.load_plugins and App.start           *)

Whitespace == {" ", "\t"}

RECURSIVE LStrip(_)
LStrip(s) == IF Len(s) > 0 /\ Head(s) \in Whitespace THEN LStrip(Tail(s)) ELSE s

RECURSIVE RStrip(_)
RStrip(s) ==
    IF Len(s) > 0 /\ s[Len(s)] \in Whitespace
    THEN RStrip(SubSeq(s, 1, Len(s) - 1))
    ELSE s

\* Strip on the left end only
StripLeft(s) == LStrip(s)

\* str.strip()
Strip(s) == RStrip(LStrip(s))

\* str.lower()
LowerText(s) == [i \in 1..Len(s) |-> Lower(s[i])]

\* command.lower() == 'exit'
IsExit(cmd) == LowerText(cmd) = s_exit

\* the argument of SystemExit in App.start: the str 'Exiting the program'
ExitArg ==
    StrCell(<<"E", "x", "i", "t", "i", "n", "g", " ", "t", "h", "e", " ",
              "p", "r", "o", "g", "r", "a", "m">>)

\* the exit status of the interpreter on an uncaught SystemExit(arg): an
\* int is the status, any other object that is not None is printed to
\* stderr and the status is 1
ExitStatus(arg) == IF arg.t = "int" THEN arg.n ELSE 1

\* CommandHandler(): no command is registered
NoCommands == [k \in {} |-> ""]

\* register_command that keeps the command registered first
register_command_keep(cmds, name, cmd) ==
    [k \in DOMAIN cmds \cup {name} |-> IF k \in DOMAIN cmds THEN cmds[k] ELSE cmd]

\* register_command(name, command): the mapping is stored or overwritten
register_command(cmds, name, cmd) ==
    [k \in DOMAIN cmds \cup {name} |-> IF k = name THEN cmd ELSE cmds[k]]

\* one name of dir(plugin_module) as load_plugins sees it. kind: "subclass"
\* for a class derived from Command, "Command" for Command itself, "class"
\* for any other class, "object" for what is not a class; handler: __init__
\* has a parameter named command_handler; init: what calling the class
\* with the arguments of load_plugins does, "ok", "TypeError" (the call
\* does not fit the signature) or "Exception" (__init__ raises)
Item(name, kind, handler, init) ==
    [name |-> name, kind |-> kind, handler |-> handler, init |-> init]

\* one entry of pkgutil.iter_modules([plugin_path]); imports: import_module
\* returns the module; items: dir(plugin_module) in its sorted order
Module(name, is_pkg, imports, items) ==
    [name |-> name, is_pkg |-> is_pkg, imports |-> imports, items |-> items]

\* the name Command every plugin imports from app.commands
TheCommand == Item("Command", "Command", FALSE, "ok")

\* the name HistoryManager the plugins import from app.history
TheManager == Item("HistoryManager", "class", FALSE, "ok")

\* the module logging every plugin imports
TheLogging == Item("logging", "object", FALSE, "ok")

\* the packages of app/plugins in the order of pkgutil.iter_modules, which
\* is sorted by name; broken: the name of the package whose import fails,
\* or <<>>
Plugins(broken) ==
    <<Module(s_add, TRUE, broken # s_add,
             <<Item("AddCommand", "subclass", FALSE, "ok"), TheCommand,
               TheManager, TheLogging>>),
      Module(s_history, TRUE, broken # s_history,
             <<TheCommand, Item("HistoryCommand", "subclass", FALSE, "ok"),
               TheManager, TheLogging>>),
      Module(s_menu, TRUE, broken # s_menu,
             <<TheCommand, Item("MenuCommand", "subclass", TRUE, "ok"),
               TheLogging>>),
      Module(s_multiply, TRUE, broken # s_multiply,
             <<TheCommand, TheManager,
               Item("MultiplyCommand", "subclass", FALSE, "ok"), TheLogging>>),
      Module(s_sub, TRUE, broken # s_sub,
             <<TheCommand, TheManager,
               Item("SubCommand", "subclass", FALSE, "ok"), TheLogging>>)>>

\* what iter_modules lists when app/plugins is as it is under src
SrcDirectory == Plugins(<<>>)

\* the base directory of load_plugins: the directory that holds the
\* package app, here /calc, which is also the working directory
BaseDir == <<"/", "c", "a", "l", "c">>

\* os.path.join(a, b)
Join(a, b) ==
    IF Len(b) > 0 /\ b[1] = "/" THEN b
    ELSE IF Len(a) = 0 \/ a[Len(a)] = "/" THEN a \o b
    ELSE a \o <<"/">> \o b

\* plugin_path of load_plugins: os.path.join(base_dir, 'app', 'plugins')
plugin_path(env) == Join(Join(BaseDir, <<"a", "p", "p">>), <<"p", "l", "u", "g", "i", "n", "s">>)

\* the loop of load_plugins before its first iteration
Loading(cmds) == [commands |-> cmds, log |-> <<>>, made |-> <<>>]

\* ImportFailed that logs nothing
ImportFailedSilent(st, m) == st

\* the except clause of import_module: logging.error, then continue
ImportFailed(st, m) ==
    [st EXCEPT !.log = Append(@, [what |-> "Failed to load plugin",
                                    plugin |-> m.name, item |-> "None"])]

\* the clause except Exception of one item: two calls of logging.error
RegisterFailed(st, plugin_name, item) ==
    [st EXCEPT !.log = @ \o <<[what |-> "Failed to register command",
                                plugin |-> plugin_name, item |-> item.name],
                               [what |-> "e", plugin |-> plugin_name,
                                item |-> item.name]>>]

\* issubclass(item, (Command)) and item is not Command, for a class
IsCandidate(item) == item.kind = "subclass"

\* Arguments that never passes the registry
ArgumentsNone(item) == "None"

\* what the class is called with: self.command_handler if __init__ has a
\* parameter command_handler, else nothing
Arguments(item) == IF item.handler THEN "self.command_handler" ELSE "None"

\* item(...): the instance, with the registry it was given
Instance(item) == [cls |-> item.name, command_handler |-> Arguments(item)]

\* KeyOf that registers under the name of the class
KeyOfClass(plugin_name, item) == item.name

\* the name the instance is registered under: plugin_name
KeyOf(plugin_name, item) == plugin_name

\* the body of the loop over dir(plugin_module): issubclass raises
\* TypeError for what is not a class, and so can the call of the class;
\* except TypeError continues, except Exception logs
LoadItem(st, plugin_name, item) ==
    IF item.kind = "object" THEN st
    ELSE IF ~IsCandidate(item) THEN st
    ELSE LET called == [st EXCEPT !.made = Append(@, item.name)]
         IN  CASE item.init = "ok" ->
                    [called EXCEPT !.commands =
                        register_command(@, KeyOf(plugin_name, item),
                                         Instance(item))]
               [] item.init = "TypeError" -> called
               [] OTHER -> RegisterFailed(called, plugin_name, item)

RECURSIVE LoadItemsBackwards(_, _, _)
\* LoadItems that goes through the names from the last to the first
LoadItemsBackwards(st, plugin_name, items) ==
    IF Len(items) = 0 THEN st
    ELSE LoadItemsBackwards(LoadItem(st, plugin_name, items[Len(items)]),
                            plugin_name, SubSeq(items, 1, Len(items) - 1))

RECURSIVE LoadItems(_, _, _)
LoadItems(st, plugin_name, items) ==
    IF Len(items) = 0 THEN st
    ELSE LoadItems(LoadItem(st, plugin_name, Head(items)), plugin_name,
                   Tail(items))

\* the loop over iter_modules: what is not a package is skipped
RECURSIVE LoadModules(_, _)
LoadModules(st, dir) ==
    IF Len(dir) = 0 THEN st
    ELSE IF ~Head(dir).is_pkg THEN LoadModules(st, Tail(dir))
    ELSE IF ~Head(dir).imports
         THEN LoadModules(ImportFailed(st, Head(dir)), Tail(dir))
    ELSE LoadModules(LoadItems(st, Head(dir).name, Head(dir).items),
                     Tail(dir))

\* load_plugins() on the registry cmds when iter_modules lists dir: the
\* registry, the errors logged and the classes called
load_plugins(cmds, dir) == LoadModules(Loading(cmds), dir)

\* the elements of a sequence
Range(xs) == {xs[i] : i \in 1..Len(xs)}

\* App(): HistoryManager(), then the sample HistoryManager().add_calculation(
\* 'add', [1, 2], 3), then HistoryManager().save_history(), then
\* CommandHandler()
AppInit ==
    /\ pc = "NEW"
    /\ \E t \in Clock :
       \E a1 \in {InitAttrs(NewAttrs(instance, attrs))} :
       \E first \in {InitDf(NewAttrs(instance, attrs), df, file)} :
       \E second \in {InitDf(a1, first, file)} :
       \E added \in {AddedDf(second, t, s_add, <<IntCell(1), IntCell(2)>>,
                              IntCell(3))} :
       \E third \in {InitDf(InitAttrs(a1), added, file)} :
          /\ Len(second.rows) < MaxLen
          /\ t \in Now(second)
          /\ instance' = New(instance)
          /\ attrs' = InitAttrs(InitAttrs(a1))
          /\ df' = third
          /\ file' = SavedFile(file, third, TRUE)
          /\ last' = [op |-> "App", arg |-> <<>>, n |-> Len(df.rows)]
          /\ ret' = "None"
    /\ pc' = "INIT"
    /\ commands' = NoCommands
    /\ UNCHANGED <<typed, command, err, log, reads, dispatched, out>>
    /\ UNCHANGED aside

\* App.start() up to the loop: load_plugins() when iter_modules lists dir;
\* HistoryCommand() calls HistoryManager()
StartOn(dir) ==
    /\ pc = "INIT"
    /\ \E st \in {load_plugins(commands, dir)} :
          /\ commands' = st.commands
          /\ loader' = [path |-> plugin_path(environ), dir |-> dir,
                        log |-> st.log, made |-> st.made]
          /\ IF "HistoryCommand" \in Range(st.made)
             THEN Construct
             ELSE UNCHANGED <<instance, attrs, df, file, last, ret>>
    /\ out' = [out EXCEPT !.loads = @ + 1]
    /\ pc' = "READING_INPUT"
    /\ UNCHANGED <<typed, command, err, log, reads, dispatched>>
    /\ UNCHANGED <<environ, user_input, stdout>>

\* App.start() up to the loop on the plugins under src
Start == StartOn(SrcDirectory)

\* the lines typed at the prompt >>>
Lines ==
    {s_exit, <<" ", "E", "x", "i", "t", " ">>,
     <<"f", "o", "o", "b", "a", "r">>,
     <<"\t", "a", "d", "d", " ">>,
     s_menu, s_history, <<>>}

\* LogText without the placeholder
LogTextRaw(cmd) == cmd

\* the command text of the error message: command if command else '<unknown>'
LogText(cmd) == IF cmd # <<>> THEN cmd ELSE s_unknown

\* LoopBack of a loop that ends after the command
LoopOnce == "EXITED"

\* where the loop goes after execute_command returned: while True
LoopBack == "READING_INPUT"

\* Handled of a handler that ends the loop
HandledExits == "EXITED"

\* where the loop goes after the except clause: while True
Handled == "READING_INPUT"

\* one iteration up to the call of execute_command: input(), strip(), the
\* test for the exit token
ReadLine ==
    /\ pc = "READING_INPUT"
    /\ \E l \in Lines :
          /\ typed' = l
          /\ command' = Strip(l)
          /\ IF IsExit(command')
             THEN /\ pc' = "EXITED"
                  /\ out' = [out EXCEPT !.farewell = TRUE,
                                         !.status = ExitStatus(ExitArg)]
                  /\ reads' = reads
             ELSE /\ Len(reads) < MaxLines
                  /\ pc' = "DISPATCHING"
                  /\ out' = out
                  /\ reads' = Append(reads, l)
    /\ err' = "None"
    /\ UNCHANGED <<instance, attrs, df, file, last, ret, commands, log, dispatched>>
    /\ UNCHANGED aside

\* one iteration in which input() raises: command is '', the except clause
\* logs the error
ReadRaises ==
    /\ pc = "READING_INPUT"
    /\ Len(log) < MaxLines
    /\ typed' = <<>>
    /\ command' = <<>>
    /\ err' = "input"
    /\ log' = Append(log, LogText(command'))
    /\ pc' = Handled
    /\ UNCHANGED <<instance, attrs, df, file, last, ret, commands, reads,
                   dispatched, out>>
    /\ UNCHANGED aside

\* execute_command(name) of a name that is not registered: the unknown
\* command is reported, nothing raises
DispatchUnknown ==
    /\ pc = "DISPATCHING"
    /\ command \notin DOMAIN commands
    /\ dispatched' = Append(dispatched, command)
    /\ err' = "None"
    /\ pc' = LoopBack
    /\ UNCHANGED <<instance, attrs, df, file, last, ret, commands, typed,
                   command, log, reads, out>>
    /\ UNCHANGED aside

\* the class of the command registered under the name
ClassOf(cmds, name) == IF name \in DOMAIN cmds THEN cmds[name].cls ELSE "None"

\* the operation name an arithmetic command records
OperationOf(cls) ==
    CASE cls = "AddCommand" -> s_add
      [] cls = "SubCommand" -> s_sub
      [] OTHER -> s_multiply

\* the result an arithmetic command computes
ResultOf(cls, a, b) ==
    CASE cls = "AddCommand" -> a + b
      [] cls = "SubCommand" -> a - b
      [] OTHER -> a * b

\* execute_command(name) of an arithmetic command that reads its two
\* numbers
DispatchArithmetic ==
    /\ pc = "DISPATCHING"
    /\ ClassOf(commands, command) \in {"AddCommand", "SubCommand", "MultiplyCommand"}
    /\ \E t \in Clock, a \in Numbers, b \in Numbers :
          execute(ClassOf(commands, command), OperationOf(ClassOf(commands, command)),
                  t, a, b, ResultOf(ClassOf(commands, command), a, b), TRUE)
    /\ dispatched' = Append(dispatched, command)
    /\ err' = "None"
    /\ pc' = LoopBack
    /\ UNCHANGED <<commands, typed, command, log, reads, out>>
    /\ UNCHANGED aside

\* execute_command(name) of an arithmetic command when input() raises at
\* one of its prompts: the exception leaves execute() and execute_command
\* and the except clause of the loop logs it
DispatchRaises ==
    /\ pc = "DISPATCHING"
    /\ ClassOf(commands, command) \in {"AddCommand", "SubCommand", "MultiplyCommand"}
    /\ dispatched' = Append(dispatched, command)
    /\ err' = "execute"
    /\ log' = Append(log, LogText(command))
    /\ pc' = Handled
    /\ UNCHANGED <<instance, attrs, df, file, last, ret, commands, typed,
                   command, reads, out>>
    /\ UNCHANGED aside

RECURSIVE InSomeOrder(_)
\* the elements of a set as a sequence; the order of the registry is not
\* modelled
InSomeOrder(S) ==
    IF S = {} THEN <<>>
    ELSE LET x == CHOOSE y \in S : TRUE
         IN  <<x>> \o InSomeOrder(S \ {x})

\* what print() has written: 'Available Commands:' and one line per name
Listing(names) ==
    [msg |-> "Available Commands:", n |-> Cardinality(names),
     rows |-> InSomeOrder(names)]

\* MenuNames that lists the names load_plugins has registered
MenuNamesLoaded(cmds, inst) ==
    {name \in DOMAIN cmds : cmds[name].cls \in Range(loader.made)}

\* the names the loop of MenuCommand.execute runs over: the keys that
\* self.command_handler.commands has when execute runs
MenuNames(cmds, inst) == DOMAIN cmds

\* MenuCommand.execute of the instance that holds the registry
MenuExecute(inst) ==
    /\ inst.cls = "MenuCommand"
    /\ inst.command_handler = "self.command_handler"
    /\ stdout' = Listing(MenuNames(commands, inst))

\* execute_command('menu'): MenuCommand.execute prints the names
DispatchMenu ==
    /\ pc = "DISPATCHING"
    /\ ClassOf(commands, command) = "MenuCommand"
    /\ dispatched' = Append(dispatched, command)
    /\ err' = "None"
    /\ pc' = LoopBack
    /\ MenuExecute(commands[command])
    /\ UNCHANGED <<instance, attrs, df, file, last, ret, commands, typed,
                   command, log, reads, out>>
    /\ UNCHANGED <<environ, loader, user_input>>

\* execute_command('history'): HistoryCommand.execute reads a subcommand;
\* clear, delete and save change the store, the other subcommands and every
\* exception, which execute() catches itself, leave it as it is
DispatchHistory ==
    /\ pc = "DISPATCHING"
    /\ ClassOf(commands, command) = "HistoryCommand"
    /\ \/ HistoryClear(TRUE)
       \/ \E index \in Indexes : HistoryDelete(index, TRUE)
       \/ HistorySave(TRUE)
       \/ UNCHANGED <<instance, attrs, df, file, last, ret>>
    /\ dispatched' = Append(dispatched, command)
    /\ err' = "None"
    /\ pc' = LoopBack
    /\ UNCHANGED <<commands, typed, command, log, reads, out>>
    /\ UNCHANGED aside

NextRepl ==
    \/ AppInit
    \/ Start
    \/ ReadLine
    \/ ReadRaises
    \/ DispatchUnknown
    \/ DispatchArithmetic
    \/ DispatchRaises
    \/ DispatchMenu
    \/ DispatchHistory

SpecRepl == Init /\ [][NextRepl]_vars

(* The registry and load_plugins on any plugin directory *)

\* what calling a discovered class does
Outcomes == {"ok", "TypeError", "Exception"}

\* one more entry of the plugin directory, named extra: a package or a
\* plain module that defines two classes derived from Command, First and
\* Second
Extra(is_pkg, imports, handler, first, second) ==
    Module(s_extra, is_pkg, imports,
           <<TheCommand, Item("First", "subclass", handler, first),
             Item("Second", "subclass", FALSE, second), TheLogging>>)

\* the plugin directories: the packages under src, one of which may fail
\* to import, and extra, which iter_modules lists after add
Directories ==
    {<<Plugins(broken)[1], Extra(is_pkg, imports, handler, first, second)>>
        \o Tail(Plugins(broken)) :
        broken \in {<<>>, s_add, s_history}, is_pkg \in BOOLEAN,
        imports \in BOOLEAN, handler \in BOOLEAN, first \in Outcomes,
        second \in Outcomes}

\* App.start() up to the loop on any plugin directory
StartAny == \E dir \in Directories : StartOn(dir)

\* the commands registered by hand
Registered ==
    {<<s_add, [cls |-> "SubCommand", command_handler |-> "None"]>>,
     <<s_add, [cls |-> "AddCommand", command_handler |-> "None"]>>,
     <<s_greet, [cls |-> "GreetCommand", command_handler |-> "None"]>>}

\* app.command_handler.register_command(name, command), called on the
\* registry of the application before or after load_plugins
RegisterCommand ==
    /\ pc \in {"INIT", "READING_INPUT"}
    /\ \E r \in Registered :
          /\ commands' = register_command(commands, r[1], r[2])
          /\ last' = [op |-> "register_command", arg |-> r,
                      n |-> Cardinality(DOMAIN commands)]
    /\ UNCHANGED <<instance, attrs, df, file, ret>>
    /\ UNCHANGED <<pc, typed, command, err, log, reads, dispatched, out>>
    /\ UNCHANGED aside

\* execute_command('menu') on the registry as it is, before the loop reads
\* a line
MenuCmd ==
    /\ pc = "READING_INPUT"
    /\ Len(dispatched) < MaxLines
    /\ ClassOf(commands, s_menu) = "MenuCommand"
    /\ MenuExecute(commands[s_menu])
    /\ dispatched' = Append(dispatched, s_menu)
    /\ UNCHANGED <<instance, attrs, df, file, last, ret>>
    /\ UNCHANGED <<pc, commands, typed, command, err, log, reads, out>>
    /\ UNCHANGED <<environ, loader, user_input>>

NextPlugins ==
    \/ AppInit
    \/ StartAny
    \/ RegisterCommand
    \/ MenuCmd

SpecPlugins == Init /\ [][NextPlugins]_vars

(* The history command at its own prompt *)

\* shlex.split(text) of a text without apostrophe and backslash: the words
\* between whitespace; a double quote opens and closes a part of a word in
\* which whitespace counts as text. raised: a quote is left open
\* (ValueError: No closing quotation)
RECURSIVE ShlexFrom(_, _, _, _, _)
ShlexFrom(text, word, inword, quoted, args) ==
    IF Len(text) = 0
    THEN IF quoted THEN [raised |-> TRUE, args |-> <<>>]
         ELSE [raised |-> FALSE,
               args |-> IF inword THEN Append(args, word) ELSE args]
    ELSE IF Head(text) = "\""
         THEN ShlexFrom(Tail(text), word, TRUE, ~quoted, args)
    ELSE IF quoted
         THEN ShlexFrom(Tail(text), Append(word, Head(text)), TRUE, TRUE, args)
    ELSE IF Head(text) \in Whitespace
         THEN ShlexFrom(Tail(text), <<>>, FALSE, FALSE,
                        IF inword THEN Append(args, word) ELSE args)
    ELSE ShlexFrom(Tail(text), Append(word, Head(text)), TRUE, FALSE, args)

shlex_split(text) == ShlexFrom(text, <<>>, FALSE, FALSE, <<>>)

\* the digits of an int literal: the text after one sign
Digits(text) ==
    IF Len(text) > 0 /\ Head(text) \in {"+", "-"} THEN Tail(text) ELSE text

\* int that takes a text that is no literal as 0
int_or_zero(text) ==
    IF IsDigits(Digits(text))
    THEN [raised |-> FALSE,
          n |-> IF Head(text) = "-" THEN -NatVal(Digits(text))
                ELSE NatVal(Digits(text))]
    ELSE [raised |-> FALSE, n |-> 0]

\* int(text) of a text without whitespace and underscore; raised: the text
\* is no int literal (ValueError)
int(text) ==
    IF IsDigits(Digits(text))
    THEN [raised |-> FALSE,
          n |-> IF Head(text) = "-" THEN -NatVal(Digits(text))
                ELSE NatVal(Digits(text))]
    ELSE [raised |-> TRUE, n |-> 0]

\* what execute() does with the line: do is the branch taken, arg the limit,
\* the index or the term; "error" is the clause except Exception
Branch(do, arg) == [do |-> do, arg |-> arg]

\* the default limit of _show_recent_history
RecentLimit == 10

\* the branch of HistoryCommand.execute for the line typed
Route(text) ==
    IF Len(Strip(text)) = 0 THEN Branch("show", Some(RecentLimit))
    ELSE IF shlex_split(text).raised THEN Branch("error", <<>>)
    ELSE LET args == shlex_split(text).args
             action == LowerText(args[1])
         IN  CASE action = s_show ->
                    IF Len(args) > 1
                    THEN IF int(args[2]).raised THEN Branch("error", args[2])
                         ELSE Branch("show", Some(int(args[2]).n))
                    ELSE Branch("show", None)
               [] action = s_clear -> Branch("clear", <<>>)
               [] action = s_delete ->
                    IF Len(args) < 2 THEN Branch("index required", <<>>)
                    ELSE IF int(args[2]).raised
                         THEN Branch("invalid index", args[2])
                    ELSE Branch("delete", int(args[2]).n)
               [] action = s_save -> Branch("save", <<>>)
               [] action = s_search ->
                    IF Len(args) < 2 THEN Branch("term required", <<>>)
                    ELSE Branch("search", args[2])
               [] OTHER -> Branch("unknown", action)

\* what print() wrote: the message, the number an f-string put into it,
\* and the entries listed under it
Printed(msg, n, rows) == [msg |-> msg, n |-> n, rows |-> rows]

\* Shown that lists every entry
ShownAll(d, limit) ==
    IF Len(d.rows) = 0
    THEN Printed("No calculation history found.", 0, <<>>)
    ELSE Printed("Calculation History (showing {len(history_df)} records):",
                 Len(d.rows), d.rows)

\* _show_history(limit)
Shown(d, limit) ==
    IF Len(GetHistory(d, limit).rows) = 0
    THEN Printed("No calculation history found.", 0, <<>>)
    ELSE Printed("Calculation History (showing {len(history_df)} records):",
                 Len(GetHistory(d, limit).rows), GetHistory(d, limit).rows)

\* _search_history(term)
Found(d, term) ==
    IF Len(SearchHistory(d, term).rows) = 0
    THEN Printed("No matches found for '{term}'.", 0, <<>>)
    ELSE Printed("Search Results for '{term}' ({len(results_df)} matches):",
                 Len(SearchHistory(d, term).rows), SearchHistory(d, term).rows)

\* Usage that prints an empty line
UsageSilent(do) == ""

\* the messages of the branches of execute() that call nothing
Usage(do) ==
    CASE do = "index required" ->
            "Index required for delete operation. Usage: delete [index]"
      [] do = "invalid index" -> "Invalid index number. Usage: delete [index]"
      [] do = "term required" -> "Search term required. Usage: search [term]"
      [] do = "unknown" ->
            "Unknown history action: {action}. Available actions: show, clear, delete, save, search"
      [] OTHER -> "An error occurred: {e}"

\* the message of _clear_history
ClearMessage ==
    IF Truthy(ClearReturn) THEN "History cleared successfully."
    ELSE "Failed to clear history."

\* the message of _delete_entry
DeleteMessage(index, d) ==
    IF InRange(index, d) THEN "Deleted entry at index {index}."
    ELSE "Failed to delete entry at index {index}. Index may be out of range."

\* the message of _save_history
SaveMessage(ok) ==
    IF ok THEN "History saved successfully." ELSE "Failed to save history."

\* HistoryCommand.execute() after input() returned text; ok: the file
\* system lets save_history write
HistoryExecute(text, ok) ==
    /\ instance > 0
    /\ user_input' = [raised |-> FALSE, text |-> text]
    /\ \E r \in {Route(text)} :
        CASE r.do = "show" ->
               /\ stdout' = Shown(df, r.arg)
               /\ last' = [op |-> "history show", arg |-> r.arg,
                           n |-> Len(df.rows)]
               /\ ret' = "None"
               /\ UNCHANGED <<instance, attrs, df, file>>
          [] r.do = "clear" ->
               /\ HistoryClear(ok)
               /\ stdout' = Printed(ClearMessage, 0, <<>>)
          [] r.do = "delete" ->
               /\ HistoryDelete(r.arg, ok)
               /\ stdout' = Printed(DeleteMessage(r.arg, df), r.arg, <<>>)
          [] r.do = "save" ->
               /\ HistorySave(ok)
               /\ stdout' = Printed(SaveMessage(Saves(ok)), 0, <<>>)
          [] r.do = "search" ->
               /\ stdout' = Found(df, r.arg)
               /\ last' = [op |-> "history search", arg |-> r.arg,
                           n |-> Len(df.rows)]
               /\ ret' = "None"
               /\ UNCHANGED <<instance, attrs, df, file>>
          [] OTHER ->
               /\ stdout' = Printed(Usage(r.do), 0, <<>>)
               /\ last' = [op |-> "history", arg |-> r.do, n |-> Len(df.rows)]
               /\ ret' = "None"
               /\ UNCHANGED <<instance, attrs, df, file>>

\* HistoryCommand.execute() when input() raises: the clause except
\* Exception prints the error
HistoryInputRaises ==
    /\ instance > 0
    /\ user_input' = [raised |-> TRUE, text |-> <<>>]
    /\ stdout' = Printed(Usage("error"), 0, <<>>)
    /\ last' = [op |-> "history", arg |-> "error", n |-> Len(df.rows)]
    /\ ret' = "None"
    /\ UNCHANGED <<instance, attrs, df, file>>

\* the history with the n entries of n seconds
RECURSIVE Entries(_)
Entries(n) ==
    IF n = 0 THEN EmptyFrame(Columns)
    ELSE Concat(Entries(n - 1),
                NewRow(n - 1, s_add, <<FloatCell(1), FloatCell(2)>>,
                       FloatCell(3)))

\* the backing files an earlier run left: no entry, one, two, or MaxRows
HistoryFiles == {ToCsv(Entries(n)) : n \in {0, 1, 2, MaxRows}}

\* the lines typed at the prompt of the history command
SubLines ==
    {<<>>, <<" ", " ">>, s_show, s_clear, s_save, s_search,
     <<"s", "h", "o", "w", " ", "2">>,
     <<" ", "s", "h", "o", "w", " ", " ", "1", "2", " ">>,
     <<"s", "h", "o", "w", " ", "x">>,
     <<"s", "h", "o", "w", " ", "\"">>,
     <<"D", "E", "L", "E", "T", "E">>,
     <<"d", "e", "l", "e", "t", "e", " ", "x">>,
     <<"d", "e", "l", "e", "t", "e", " ", "1", ".", "5">>,
     <<"d", "e", "l", "e", "t", "e", " ", "0">>,
     <<"d", "e", "l", "e", "t", "e", " ", "9", "9">>,
     <<"s", "e", "a", "r", "c", "h", " ", "a", "d", "d">>,
     <<"b", "o", "g", "u", "s">>}

InitHistory ==
    /\ instance = 0
    /\ attrs = [k \in {} |-> FALSE]
    /\ df = NoFrame
    /\ file \in HistoryFiles
    /\ last = [op |-> "start", arg |-> <<>>, n |-> 0]
    /\ ret = "None"
    /\ environ = NoEnviron
    /\ NotStarted

\* execute() of the history command on any line, on a file system that
\* does not fail
HistoryCommand ==
    /\ \E text \in SubLines : HistoryExecute(text, TRUE)
    /\ UNCHANGED <<repl, environ, loader>>

\* execute() of the history command when the line cannot be read
HistoryCommandRaises == HistoryInputRaises /\ UNCHANGED <<repl, environ, loader>>

NextHistory ==
    \/ NewHistoryManager
    \/ HistoryCommand
    \/ HistoryCommandRaises

SpecHistory == InitHistory /\ [][NextHistory]_vars

(* The application under any setting of HISTORY_FILE and PLUGINS_DIR *)

\* the environments in which the one setting is absent or has one of the
\* values
Setting(name, values) == {NoEnviron} \cup {[k \in {name} |-> v] : v \in values}

\* the environment with the settings of both
Merge(f, g) ==
    [k \in DOMAIN f \cup DOMAIN g |-> IF k \in DOMAIN f THEN f[k] ELSE g[k]]

\* os.environ after load_dotenv(): HISTORY_FILE and PLUGINS_DIR are absent,
\* name the default, or name another place
Environs ==
    {Merge(h, p) :
        h \in Setting("HISTORY_FILE",
                      {DefaultHistoryFile,
                       <<"s", "t", "o", "r", "e", "/", "h", ".", "c", "s", "v">>,
                       <<"t", "e", "s", "t", "_", "h", "i", "s", "t", "o", "r",
                         "y", ".", "c", "s", "v">>}),
        p \in Setting("PLUGINS_DIR",
                      {DefaultPluginsDir,
                       <<"e", "x", "t", "/", "p", "l", "u", "g", "i", "n", "s">>})}

InitConfig ==
    /\ instance = 0
    /\ attrs = [k \in {} |-> FALSE]
    /\ df = NoFrame
    /\ file \in InitFiles
    /\ last = [op |-> "start", arg |-> <<>>, n |-> 0]
    /\ ret = "None"
    /\ environ \in Environs
    /\ NotStarted

\* save_history() where the file can be written
SaveWritable == save_history(TRUE) /\ UNCHANGED app

NextConfig ==
    \/ NewHistoryManager
    \/ AppInit
    \/ Start
    \/ SaveWritable

SpecConfig == InitConfig /\ [][NextConfig]_vars

---------------------------------------------------------------------------
(* The prompts of the arithmetic commands *)

\* float(text) of a line: blanks around the number are ignored, and what
\* is left is a decimal number or ValueError is raised
float(text) ==
    LET stripped == Strip(text)
    IN  IF IsIntText(stripped) \/ IsFloatText(stripped)
        THEN [raised |-> FALSE, n |-> NumVal(stripped)]
        ELSE [raised |-> TRUE, n |-> 0]

\* a pass through the loop that takes every line for a number
get_float_once(text) ==
    [done |-> TRUE, value |-> float(text).n, printed |-> ""]

\* one pass through the loop of get_float on the line that input() returns:
\* the value is returned, or ValueError is caught, the message is printed
\* and the loop goes on
get_float(text) ==
    IF float(text).raised
    THEN [done |-> FALSE, value |-> 0,
          printed |-> "Invalid Value. Please Try Again."]
    ELSE [done |-> TRUE, value |-> float(text).n, printed |-> ""]

\* the lines that are entered at the prompts
EnteredLines ==
    {<<"1">>, <<"2", ".", "0">>, <<" ", "2", " ">>, <<>>, <<"x">>,
     <<"1", ",", "5">>, <<"2", "x">>}

\* execute() of an arithmetic command begins, in a process that has not
\* used the store yet: the first prompt is next
ArithmeticBegin ==
    /\ pc = "NEW"
    /\ instance = 0
    /\ \E cls \in {"AddCommand", "SubCommand", "MultiplyCommand"} :
          last' = [op |-> cls, arg |-> <<>>, n |-> Len(df.rows)]
    /\ pc' = "FIRST_NUMBER"
    /\ stdout' = Silent
    /\ UNCHANGED <<instance, attrs, df, file, ret>>
    /\ UNCHANGED <<commands, typed, command, err, log, reads, dispatched, out>>
    /\ UNCHANGED <<environ, loader, user_input>>

\* a line that float() does not take, at either prompt
EnterInvalid ==
    /\ pc \in {"FIRST_NUMBER", "SECOND_NUMBER"}
    /\ \E text \in EnteredLines :
          /\ ~get_float(text).done
          /\ user_input' = [raised |-> FALSE, text |-> text]
          /\ stdout' = Printed(get_float(text).printed, 0, <<>>)
    /\ UNCHANGED <<instance, attrs, df, file, last, ret>>
    /\ UNCHANGED <<pc, commands, typed, command, err, log, reads, dispatched, out>>
    /\ UNCHANGED <<environ, loader>>

\* a = get_float("Enter first number: ") returns
EnterFirst ==
    /\ pc = "FIRST_NUMBER"
    /\ \E text \in EnteredLines :
          /\ get_float(text).done
          /\ user_input' = [raised |-> FALSE, text |-> text]
          /\ last' = [last EXCEPT !.arg = <<get_float(text).value>>]
    /\ pc' = "SECOND_NUMBER"
    /\ stdout' = Silent
    /\ UNCHANGED <<instance, attrs, df, file, ret>>
    /\ UNCHANGED <<commands, typed, command, err, log, reads, dispatched, out>>
    /\ UNCHANGED <<environ, loader>>

\* b = get_float("Enter second number: ") returns and execute() goes on
\* to the result and to the history
EnterSecond ==
    /\ pc = "SECOND_NUMBER"
    /\ \E text \in EnteredLines, t \in Clock :
          /\ get_float(text).done
          /\ user_input' = [raised |-> FALSE, text |-> text]
          /\ execute(last.op, OperationOf(last.op), t, last.arg[1],
                     get_float(text).value,
                     ResultOf(last.op, last.arg[1], get_float(text).value),
                     TRUE)
          /\ stdout' = Printed("Result: {a} {b} = {result}",
                               ResultOf(last.op, last.arg[1],
                                        get_float(text).value), <<>>)
    /\ pc' = "NEW"
    /\ UNCHANGED <<commands, typed, command, err, log, reads, dispatched, out>>
    /\ UNCHANGED <<environ, loader>>

NextPrompt ==
    \/ ArithmeticBegin
    \/ EnterInvalid
    \/ EnterFirst
    \/ EnterSecond

SpecPrompt == Init /\ [][NextPrompt]_vars

---------------------------------------------------------------------------
(* Properties *)

\* two cells hold the same value: numbers compare by value, as 3 == 3.0
Same(c1, c2) ==
    IF c1.t \in {"int", "float"} /\ c2.t \in {"int", "float"}
    THEN c1.n = c2.n
    ELSE c1 = c2

SameRow(r1, r2) == Len(r1) = Len(r2) /\ \A j \in 1..Len(r1) : Same(r1[j], r2[j])

\* the four column names, letter by letter
CanonicalColumns ==
    <<<<"t", "i", "m", "e", "s", "t", "a", "m", "p">>,
      <<"o", "p", "e", "r", "a", "t", "i", "o", "n">>,
      <<"i", "n", "p", "u", "t", "s">>,
      <<"r", "e", "s", "u", "l", "t">>>>

\* the text of the input lists that are passed
ExpectedText(inputs) ==
    IF inputs = <<IntCell(1), IntCell(2)>>
    THEN <<"[", "1", ",", " ", "2", "]">>
    ELSE IF inputs = <<FloatCell(1), FloatCell(2)>>
    THEN <<"[", "1", ".", "0", ",", " ", "2", ".", "0", "]">>
    ELSE <<"?">>

\* term occurs in text as a substring, ignoring case
SubstringCI(term, text) ==
    \E k \in 0..(Len(text) - Len(term)) :
        \A i \in 1..Len(term) : Lower(term[i]) = Lower(text[k + i])

RECURSIVE Matching(_, _)
\* the rows that have term as a substring of the text of a field, in order
Matching(rows, term) ==
    IF Len(rows) = 0 THEN <<>>
    ELSE (IF \E j \in 1..Len(Head(rows)) : SubstringCI(term, StrOf(Head(rows)[j]))
          THEN <<Head(rows)>> ELSE <<>>)
         \o Matching(Tail(rows), term)

\* the texts of the fields of the rows
StrRows(d) ==
    [i \in 1..Len(d.rows) |-> [j \in 1..Len(d.rows[i]) |-> StrOf(d.rows[i][j])]]

ArithmeticCommands == {"AddCommand", "SubCommand", "MultiplyCommand"}

\* C1: every HistoryManager() call returns the one instance, and a call
\* made when the instance exists leaves the entries in memory as they were
C1_SingleInit ==
    [][last'.op = "construct" =>
          /\ instance' = 1
          /\ instance > 0 => df' = df]_vars

\* C2: an arithmetic command leaves the history as it stood with exactly
\* one entry appended, which names the command, holds the text of [a, b]
\* and the result of the operation on a and b
C2_CommandAppends ==
    [][(last'.op \in ArithmeticCommands /\ instance > 0) =>
          LET n == Len(df.rows)
              a == last'.arg[1]
              b == last'.arg[2]
              new == df'.rows[n + 1]
          IN  /\ Len(df'.rows) = n + 1
              /\ \A i \in 1..n : SameRow(df'.rows[i], df.rows[i])
              /\ new[3] = StrCell(<<"[">> \o FloatText(a) \o <<",", " ">>
                                  \o FloatText(b) \o <<"]">>)
              /\ last'.op = "AddCommand" =>
                    new[2] = StrCell(<<"a", "d", "d">>) /\ new[4].n = a + b
              /\ last'.op = "SubCommand" =>
                    new[2] = StrCell(<<"s", "u", "b">>) /\ new[4].n = a - b
              /\ last'.op = "MultiplyCommand" =>
                    /\ new[2] = StrCell(<<"m", "u", "l", "t", "i", "p", "l", "y">>)
                    /\ new[4].n = a * b]_vars

\* C3: add_calculation on n entries returns true and leaves n + 1 entries:
\* the first n as they were and in their order, the last with the given
\* operation, the text of the input list, and the given result
C3_AddAppends ==
    [][last'.op = "add_calculation" =>
          LET n == Len(df.rows)
              new == df'.rows[n + 1]
          IN  /\ ret' = "True"
              /\ Len(df'.rows) = n + 1
              /\ \A i \in 1..n : SameRow(df'.rows[i], df.rows[i])
              /\ new[2] = StrCell(last'.arg[1])
              /\ new[3] = StrCell(ExpectedText(last'.arg[2]))
              /\ Same(new[4], last'.arg[3])]_vars

C3_Witness ==
    /\ last.op = "add_calculation"
    /\ last.n >= 1
    /\ Len(df.rows) = last.n + 1

\* C4: delete_entry(i) with 0 <= i < size returns true and removes the
\* entry at position i: the entries before it stay, the entries after it
\* move down by one, the size decreases by one
C4_DeleteShifts ==
    [][(last'.op = "delete_entry" /\ 0 <= last'.arg /\ last'.arg < Len(df.rows)) =>
          /\ ret' = "True"
          /\ Len(df'.rows) = Len(df.rows) - 1
          /\ \A j \in 0..(Len(df.rows) - 1) :
                /\ j < last'.arg => df'.rows[j + 1] = df.rows[j + 1]
                /\ j > last'.arg => df'.rows[j] = df.rows[j + 1]]_vars

C4_Witness ==
    /\ last.op = "delete_entry"
    /\ ret = "True"
    /\ last.arg = 0
    /\ last.n >= 2
    /\ Len(df.rows) = last.n - 1

\* C5: delete_entry(i) with i outside [0, size) returns false and leaves
\* the entries as they were
C5_DeleteOutOfRange ==
    [][(last'.op = "delete_entry" /\ (last'.arg < 0 \/ last'.arg >= Len(df.rows))) =>
          /\ ret' = "False"
          /\ df' = df]_vars

C5_Witness ==
    /\ last.op = "delete_entry"
    /\ ret = "False"
    /\ last.n >= 1
    /\ last.arg \in {-1, last.n, last.n + 1}
    /\ Len(df.rows) = last.n

\* C6: after clear_history(), get_history() returns no entry and the four
\* columns timestamp, operation, inputs, result
C6_ClearEmpties ==
    last.op = "clear_history" =>
        \A limit \in Limits :
            /\ GetHistory(df, limit).rows = <<>>
            /\ GetHistory(df, limit).columns = CanonicalColumns

C6_Witness ==
    /\ last.op = "clear_history"
    /\ last.n >= 1
    /\ df.rows = <<>>

\* C7: get_history(limit) returns the last min(limit, size) entries in
\* their order for a positive limit, and all entries for no limit, zero
\* or a negative limit
C7_GetHistoryTail ==
    last.op = "get_history" =>
        LET n == Len(df.rows)
            k == IF last.arg.some /\ last.arg.v > 0
                 THEN (IF last.arg.v < n THEN last.arg.v ELSE n)
                 ELSE n
        IN  /\ Len(ret.rows) = k
            /\ \A i \in 1..k : ret.rows[i] = df.rows[n - k + i]

C7_Witness ==
    /\ last.op = "get_history"
    /\ last.arg = Some(1)
    /\ Len(df.rows) = 2
    /\ Len(ret.rows) = 1

\* C8: search_history(term) returns, in their order, exactly the entries
\* that have term, ignoring case, as a substring of the text of a field
C8_SearchIsSubstring ==
    last.op = "search_history" => ret.rows = Matching(df.rows, last.arg)

\* C9: after a successful save_history(), a fresh load of the file gives
\* the same entries in the same order, equal in the text of every field
C9_RoundTrip ==
    (last.op = "save_history" /\ ret = "True") =>
        /\ ~load_history(file).raised
        /\ StrRows(load_history(file).df) = StrRows(df)

\* C10: the file changes only in save_history, and get_history returns
\* entries of the in-memory sequence whatever the file holds
C10_FileOnlyOnSave ==
    [][/\ file' # file => last'.op = "save_history"
       /\ last'.op \in {"construct", "add_calculation", "delete_entry",
                        "clear_history", "get_history", "search_history"}
             => file' = file
       /\ last'.op = "get_history" =>
             /\ df' = df
             /\ \A i \in 1..Len(ret'.rows) :
                   ret'.rows[i] = df.rows[Len(df.rows) - Len(ret'.rows) + i]]_vars

C10_Witness ==
    /\ last.op = "get_history"
    /\ Len(ret.rows) >= 1
    /\ file.exists
    /\ file # ToCsv(df)

\* C11: whenever the store exists, the columns of the in-memory history
\* are exactly timestamp, operation, inputs, result, in that order
C11_ColumnsCanonical == instance > 0 => df.columns = CanonicalColumns

\* the cell stands for the text of the field of the file
FieldIs(cell, field) ==
    CASE cell.t = "str" -> cell.s = field
      [] cell.t = "nan" -> field \in NaTexts
      [] OTHER -> (IsIntText(field) \/ IsFloatText(field)) /\ NumVal(field) = cell.n

HeaderLine ==
    <<"t", "i", "m", "e", "s", "t", "a", "m", "p", ",",
      "o", "p", "e", "r", "a", "t", "i", "o", "n", ",",
      "i", "n", "p", "u", "t", "s", ",", "r", "e", "s", "u", "l", "t">>

\* C13: save_history returns true or false and leaves the entries in
\* memory as they were; when it returns true the file holds the header line
\* and then one line for every entry in memory, in their order
C13_SaveWritesAll ==
    [][last'.op = "save_history" =>
          /\ ret' \in {"True", "False"}
          /\ df' = df
          /\ ret' = "True" =>
                /\ file'.exists
                /\ Len(file'.lines) = Len(df.rows) + 1
                /\ file'.lines[1] = HeaderLine
                /\ \A i \in 1..Len(df.rows) :
                      ParseLine(file'.lines[i + 1]) =
                          [j \in 1..4 |-> CsvOf(df.rows[i][j])]]_vars

C13_Witness ==
    /\ last.op = "save_history"
    /\ ret = "True"
    /\ Len(df.rows) >= 2
    /\ Len(file.lines) = Len(df.rows) + 1

\* C14: when the append raises, add_calculation returns false and leaves
\* the entries in memory as they were
C14_AddFailsSoft ==
    [][last'.op = "add_calculation raised" =>
          /\ ret' = "False"
          /\ df' = df]_vars

C14_Witness ==
    /\ last.op = "add_calculation raised"
    /\ ret = "False"
    /\ Len(df.rows) >= 1

\* C15: get_history changes neither the entries in memory nor the file,
\* and a second get_history right after a first with the same limit
\* returns what the first returned
C15_GetHistoryIdempotent ==
    [][last'.op = "get_history" =>
          /\ df' = df
          /\ file' = file
          /\ (last.op = "get_history" /\ last.arg = last'.arg) => ret' = ret]_vars

C15_Witness ==
    /\ last.op = "get_history"
    /\ last.arg = None
    /\ Len(ret.rows) = 2
    /\ ret = df

\* a blank or a tab
Blank(ch) == ch = " " \/ ch = "\t"

\* the text between the first and the last character that is not white
Trimmed(s) ==
    LET black == {i \in 1..Len(s) : ~Blank(s[i])}
    IN  IF black = {} THEN <<>>
        ELSE SubSeq(s, CHOOSE i \in black : \A k \in black : i <= k,
                       CHOOSE j \in black : \A k \in black : k <= j)

\* the line is the word exit in any mix of cases, with white space around it
IsExitToken(l) ==
    LET w == Trimmed(l)
    IN  /\ Len(w) = 4
        /\ w[1] \in {"e", "E"}
        /\ w[2] \in {"x", "X"}
        /\ w[3] \in {"i", "I"}
        /\ w[4] \in {"t", "T"}

\* C16: a step of the loop in which reading or executing raised ends at
\* the prompt again, with one more error logged: under '<unknown>' when
\* input() raised, else under the trimmed text of the line
C16_ErrorsContained ==
    [][err' # "None" =>
          /\ pc' = "READING_INPUT"
          /\ Len(log') = Len(log) + 1
          /\ SubSeq(log', 1, Len(log)) = log
          /\ log'[Len(log')] =
                IF err' = "input"
                THEN <<"<", "u", "n", "k", "n", "o", "w", "n", ">">>
                ELSE Trimmed(typed')]_vars

C16_Witness ==
    /\ err = "execute"
    /\ pc = "READING_INPUT"
    /\ log = <<<<"<", "u", "n", "k", "n", "o", "w", "n", ">">>, <<"a", "d", "d">>>>

\* C17: once the line read is the exit token, the farewell is printed, the
\* line is not passed to execute_command, and the process has ended with
\* the exit status of success
C17_ExitTerminates ==
    IsExitToken(typed) =>
        /\ pc = "EXITED"
        /\ out.farewell
        /\ \A i \in 1..Len(dispatched) : dispatched[i] # Trimmed(typed)
        /\ out.status = 0

\* C18: the loop goes from the prompt to dispatching and back; it ends
\* only from the prompt and only on the exit token, and once ended it stays
\* ended
C18_ExitOnlyByToken ==
    [][/\ pc = "READING_INPUT" => pc' \in {"READING_INPUT", "DISPATCHING", "EXITED"}
       /\ pc = "DISPATCHING" => pc' = "READING_INPUT"
       /\ pc = "EXITED" => pc' = "EXITED"
       /\ (pc' = "EXITED" /\ pc # "EXITED") =>
             pc = "READING_INPUT" /\ IsExitToken(typed')]_vars

C18_Witness ==
    /\ pc = "EXITED"
    /\ Len(dispatched) >= 2
    /\ Len(log) >= 1

\* C19: dispatching a name that is not registered leaves the history in
\* memory, the file and the registry as they were and returns to the prompt
C19_UnknownIsNoOp ==
    [][(pc = "DISPATCHING" /\ command \notin DOMAIN commands) =>
          /\ df' = df
          /\ file' = file
          /\ commands' = commands
          /\ pc' = "READING_INPUT"]_vars

C19_Witness ==
    /\ Len(dispatched) = 2
    /\ dispatched[1] = <<"f", "o", "o", "b", "a", "r">>
    /\ dispatched[2] = <<"a", "d", "d">>
    /\ last.op = "AddCommand"
    /\ pc = "READING_INPUT"

\* C20: execute_command has been called once for every line read that is
\* not the exit token, in the order of the lines and with the trimmed text
\* of each (the line read last is still to be dispatched while the loop is
\* dispatching); load_plugins has run once when the loop runs, and not
\* before
C20_DispatchOnceInOrder ==
    /\ Len(dispatched) = (IF pc = "DISPATCHING" THEN Len(reads) - 1 ELSE Len(reads))
    /\ \A i \in 1..Len(dispatched) : dispatched[i] = Trimmed(reads[i])
    /\ out.loads = (IF pc \in {"NEW", "INIT"} THEN 0 ELSE 1)
    /\ pc \in {"NEW", "INIT"} => reads = <<>>

C20_Witness ==
    /\ Len(dispatched) = 2
    /\ reads[1] = <<"\t", "a", "d", "d", " ">>
    /\ dispatched[1] = <<"a", "d", "d">>
    /\ reads[2] = <<"m", "e", "n", "u">>
    /\ dispatched[2] = reads[2]

\* C21: register_command(name, command) always succeeds and leaves name
\* mapped to command; a name that was registered before is mapped to the
\* new command only, and every other name keeps its command
C21_RegisterReplaces ==
    [][(pc' = pc /\ dispatched' = dispatched
        /\ last'.op = "register_command") =>
          /\ DOMAIN commands' = DOMAIN commands \cup {last'.arg[1]}
          /\ commands'[last'.arg[1]] = last'.arg[2]
          /\ \A k \in DOMAIN commands \ {last'.arg[1]} :
                commands'[k] = commands[k]]_vars

\* add, which load_plugins registered as an AddCommand, is registered again
\* as a SubCommand
C21_Witness ==
    /\ pc = "READING_INPUT"
    /\ loader.dir[1].imports
    /\ last.op = "register_command"
    /\ last.arg[1] = s_add
    /\ commands[s_add].cls = "SubCommand"
    /\ s_menu \in DOMAIN commands

\* load_plugins() ran in the step
Loaded == pc = "INIT" /\ pc' = "READING_INPUT"

\* the classes derived from Command, other than Command, that the module
\* exposes and that can be constructed
Constructible(m) ==
    {m.items[i].name : i \in {j \in 1..Len(m.items) :
        m.items[j].kind = "subclass" /\ m.items[j].init = "ok"}}

\* the entry is in the log of load_plugins
Logged(entries, what, plugin, item) ==
    \E i \in 1..Len(entries) :
        entries[i] = [what |-> what, plugin |-> plugin, item |-> item]

\* the registry maps the name as it did before load_plugins ran
Kept(name) ==
    IF name \in DOMAIN commands
    THEN name \in DOMAIN commands' /\ commands'[name] = commands[name]
    ELSE name \notin DOMAIN commands'

\* C22: a plugin package whose import fails is logged, nothing is
\* registered under its name, and every other package that imports is
\* registered with a command of its own
C22_ImportFailureSkipsOne ==
    [][Loaded =>
        \A i \in 1..Len(loader'.dir) :
            LET m == loader'.dir[i]
            IN  /\ (m.is_pkg /\ ~m.imports) =>
                      /\ Logged(loader'.log, "Failed to load plugin", m.name,
                                "None")
                      /\ Kept(m.name)
                /\ (m.is_pkg /\ m.imports /\ Constructible(m) # {}) =>
                      /\ m.name \in DOMAIN commands'
                      /\ commands'[m.name].cls \in Constructible(m)]_vars

\* history fails to import and extra fails to import; add, menu, multiply
\* and sub are registered, history and extra are not
C22_Witness ==
    /\ pc = "READING_INPUT"
    /\ last.op # "register_command"
    /\ ~loader.dir[2].imports /\ loader.dir[2].is_pkg
    /\ ~loader.dir[3].imports
    /\ DOMAIN commands = {s_add, s_menu, s_multiply, s_sub}
    /\ Len(loader.log) = 2

\* C23: a class derived from Command whose construction fails, whatever
\* it raises, is logged, and the classes and the packages that follow are
\* still registered
C23_ConstructFailureLogged ==
    [][Loaded =>
        \A i \in 1..Len(loader'.dir) :
            LET m == loader'.dir[i]
            IN  (m.is_pkg /\ m.imports) =>
                  /\ \A j \in 1..Len(m.items) :
                        (m.items[j].kind = "subclass" /\ m.items[j].init # "ok")
                        => Logged(loader'.log, "Failed to register command",
                                  m.name, m.items[j].name)
                  /\ Constructible(m) # {} =>
                        /\ m.name \in DOMAIN commands'
                        /\ commands'[m.name].cls \in Constructible(m)]_vars

\* C24: every key load_plugins adds or changes is the name of a package of
\* the plugin directory, and its command is an instance of a class derived
\* from Command that the package exposes; Command itself is not called,
\* and a module that is no package is not registered
C24_KeysArePackages ==
    [][Loaded =>
        /\ \A k \in DOMAIN commands' :
              Kept(k) \/
              \E i \in 1..Len(loader'.dir) :
                  /\ loader'.dir[i].name = k
                  /\ loader'.dir[i].is_pkg
                  /\ commands'[k].cls \in Constructible(loader'.dir[i])
        /\ \A i \in 1..Len(loader'.made) : loader'.made[i] # "Command"
        /\ \A i \in 1..Len(loader'.dir) :
              ~loader'.dir[i].is_pkg => Kept(loader'.dir[i].name)]_vars

\* extra is a plain module with two constructible classes: it is not
\* registered, the five packages are, each under its own name
C24_Witness ==
    /\ pc = "READING_INPUT"
    /\ last.op # "register_command"
    /\ ~loader.dir[2].is_pkg /\ loader.dir[2].imports
    /\ Constructible(loader.dir[2]) = {"First", "Second"}
    /\ DOMAIN commands = {s_add, s_history, s_menu, s_multiply, s_sub}
    /\ commands[s_history].cls = "HistoryCommand"

\* the class of the module that load_plugins registers last: the last one
\* in dir() that can be constructed
LastConstructible(m) ==
    LET J == {j \in 1..Len(m.items) :
                m.items[j].kind = "subclass" /\ m.items[j].init = "ok"}
    IN  m.items[CHOOSE j \in J : \A k \in J : k <= j]

\* C25: a class whose constructor has a parameter command_handler is
\* constructed with the registry of the application, any other class with
\* no argument, and the instance is registered in both cases
C25_HandlerPassedWhenNamed ==
    [][Loaded =>
        \A i \in 1..Len(loader'.dir) :
            LET m == loader'.dir[i]
            IN  (m.is_pkg /\ m.imports /\ Constructible(m) # {}) =>
                  /\ m.name \in DOMAIN commands'
                  /\ commands'[m.name].cls = LastConstructible(m).name
                  /\ commands'[m.name].command_handler =
                        (IF LastConstructible(m).handler
                         THEN "self.command_handler" ELSE "None")]_vars

\* First of extra takes command_handler and is the class registered, as
\* MenuCommand is; AddCommand takes none
C25_Witness ==
    /\ pc = "READING_INPUT"
    /\ last.op # "register_command"
    /\ DOMAIN commands = {s_add, s_extra, s_history, s_menu, s_multiply, s_sub}
    /\ commands[s_extra] = [cls |-> "First",
                            command_handler |-> "self.command_handler"]
    /\ commands[s_menu] = [cls |-> "MenuCommand",
                           command_handler |-> "self.command_handler"]
    /\ commands[s_add] = [cls |-> "AddCommand", command_handler |-> "None"]

\* execute() of the history command ran in the step
Executed ==
    last'.op \in {"history", "history show", "history clear",
                  "history delete", "history save", "history search"}

\* the last k entries of the history in their order
LastRows(d, k) == [i \in 1..k |-> d.rows[Len(d.rows) - k + i]]

Min(a, b) == IF a < b THEN a ELSE b

\* C26: 'delete' without an index prints the usage message 'Index required
\* ...', 'delete' with an index that is no integer prints 'Invalid index
\* ...'; neither deletes an entry nor changes history or file, and
\* execute() returns
C26_DeleteNeedsIndex ==
    [][(Executed /\ ~user_input'.raised) =>
        /\ user_input'.text \in {<<"D", "E", "L", "E", "T", "E">>} =>
              /\ stdout'.msg =
                    "Index required for delete operation. Usage: delete [index]"
              /\ df' = df /\ file' = file /\ ret' = "None"
        /\ user_input'.text \in {<<"d", "e", "l", "e", "t", "e", " ", "x">>, <<"d", "e", "l", "e", "t", "e", " ", "1", ".", "5">>} =>
              /\ stdout'.msg = "Invalid index number. Usage: delete [index]"
              /\ df' = df /\ file' = file /\ ret' = "None"]_vars

\* 'delete x' on a history of MaxRows entries: the message is printed and
\* the entries are all there
C26_Witness ==
    /\ user_input.text = <<"d", "e", "l", "e", "t", "e", " ", "x">>
    /\ stdout.msg = "Invalid index number. Usage: delete [index]"
    /\ last.op = "history"
    /\ Len(df.rows) = MaxRows

\* C27: an unknown action, a missing argument, an argument of show or
\* delete that is no integer, an open quote and a prompt that cannot be
\* read each end with a usage or error message printed, execute() returns,
\* and history and file are as before
C27_MalformedLinesPrint ==
    [][Executed =>
        LET text == user_input'.text
            same == df' = df /\ file' = file /\ ret' = "None"
        IN  /\ user_input'.raised =>
                  stdout'.msg = "An error occurred: {e}" /\ same
            /\ (~user_input'.raised /\ text = <<"b", "o", "g", "u", "s">>) =>
                  /\ stdout'.msg = "Unknown history action: {action}. Available actions: show, clear, delete, save, search"
                  /\ same
            /\ (~user_input'.raised /\ text = s_search) =>
                  /\ stdout'.msg = "Search term required. Usage: search [term]"
                  /\ same
            /\ (~user_input'.raised /\ text = <<"D", "E", "L", "E", "T", "E">>) =>
                  /\ stdout'.msg =
                        "Index required for delete operation. Usage: delete [index]"
                  /\ same
            /\ (~user_input'.raised /\ text \in {<<"s", "h", "o", "w", " ", "x">>, <<"s", "h", "o", "w", " ", "\"">>}) =>
                  stdout'.msg = "An error occurred: {e}" /\ same
            /\ (~user_input'.raised /\ text \in {<<"d", "e", "l", "e", "t", "e", " ", "x">>, <<"d", "e", "l", "e", "t", "e", " ", "1", ".", "5">>}) =>
                  /\ stdout'.msg = "Invalid index number. Usage: delete [index]"
                  /\ same]_vars

\* 'show x' on a history of two entries: the error is printed
C27_Witness ==
    /\ user_input.text = <<"s", "h", "o", "w", " ", "x">>
    /\ ~user_input.raised
    /\ stdout.msg = "An error occurred: {e}"
    /\ Len(df.rows) = 2

\* C28: an empty line or a line of whitespace shows the last min(10, size)
\* entries in their order, 'show' shows all entries, 'show n' with n > 0
\* the last min(n, size); history and file are as before
C28_ShowsRecent ==
    [][(Executed /\ ~user_input'.raised) =>
        LET text == user_input'.text
            shows(k) == /\ stdout'.n = k
                        /\ stdout'.rows = LastRows(df, k)
                        /\ df' = df /\ file' = file
        IN  /\ text \in {<<>>, <<" ", " ">>} => shows(Min(10, Len(df.rows)))
            /\ text = s_show => shows(Len(df.rows))
            /\ text = <<"s", "h", "o", "w", " ", "2">> => shows(Min(2, Len(df.rows)))
            /\ text = <<" ", "s", "h", "o", "w", " ", " ", "1", "2", " ">> => shows(Min(12, Len(df.rows)))]_vars

\* the empty line on a history of MaxRows entries, more than ten: the
\* last ten are shown, the first of them being the second entry
C28_Witness ==
    /\ user_input.text = <<>>
    /\ last.op = "history show"
    /\ Len(df.rows) = MaxRows
    /\ stdout.n = 10
    /\ stdout.rows[1] = df.rows[MaxRows - 9]
    /\ stdout.rows[10] = df.rows[MaxRows]

\* C30: 'clear' empties the history, saves the empty history to the file
\* and prints 'History cleared successfully.'; 'Failed to clear history.'
\* is printed only if clear_history failed, which it does not do here
C30_ClearSavesAndReports ==
    [][(Executed /\ ~user_input'.raised /\ user_input'.text = s_clear) =>
          /\ Len(df'.rows) = 0
          /\ file' = ToCsv(df')
          /\ stdout'.msg = "History cleared successfully."
          /\ stdout'.msg # "Failed to clear history."]_vars

\* C29: the path of the backing file is HISTORY_FILE and the plugin
\* directory is PLUGINS_DIR where they are set, and the defaults
\* data/calculation_history.csv and app/plugins where they are not: the
\* store works on that file and load_plugins enumerates that directory
C29_PathsConfigured ==
    /\ instance > 0 =>
          attrs[<<"history_file">>] =
              (IF "HISTORY_FILE" \in DOMAIN environ THEN environ["HISTORY_FILE"]
               ELSE <<"d", "a", "t", "a", "/", "c", "a", "l", "c", "u", "l", "a", "t", "i", "o", "n", "_",
                  "h", "i", "s", "t", "o", "r", "y", ".", "c", "s", "v">>)
    /\ out.loads > 0 =>
          loader.path =
              <<"/", "c", "a", "l", "c", "/">> \o
              (IF "PLUGINS_DIR" \in DOMAIN environ THEN environ["PLUGINS_DIR"]
               ELSE <<"a", "p", "p", "/", "p", "l", "u", "g", "i", "n", "s">>)


\* C31: after an entry has been removed by the history subcommands 'clear'
\* or 'delete', the history after the next arithmetic command holds the
\* entries that were left by the removal, in their order, followed by the
\* one entry the command records: no removed entry is back
C31_RemovedStaysRemoved ==
    [][(/\ last.op \in {"history clear", "history delete"}
        /\ last.n > Len(df.rows)
        /\ last'.op \in ArithmeticCommands) =>
          /\ Len(df'.rows) = Len(df.rows) + 1
          /\ \A i \in 1..Len(df.rows) : SameRow(df'.rows[i], df.rows[i])]_vars


\* C32: every operation on the store other than delete_entry and
\* clear_history leaves the entries that existed where they were, with the
\* values of their fields and in their order; what it adds, it adds at
\* the end
C32_AppendOnly ==
    [][(last'.op \notin {"delete_entry", "clear_history"} /\ instance > 0) =>
          /\ Len(df'.rows) >= Len(df.rows)
          /\ \A i \in 1..Len(df.rows) : SameRow(df'.rows[i], df.rows[i])]_vars


\* C33: when an add, sub or multiply command returns, and when 'delete'
\* with an index in range returns, on a file system that does not fail,
\* the file exists and holds the header and one line for each entry in
\* memory, with the fields of that entry, in the same order
C33_CommandsSave ==
    [][(\/ last'.op \in ArithmeticCommands
        \/ last'.op = "history delete" /\ InRange(last'.arg, df)) =>
          /\ file'.exists
          /\ Len(file'.lines) = Len(df'.rows) + 1
          /\ file'.lines[1] = HeaderLine
          /\ \A i \in 1..Len(df'.rows) :
                ParseLine(file'.lines[i + 1]) =
                    [j \in 1..4 |-> CsvOf(df'.rows[i][j])]]_vars

\* 'delete 0' on two entries: one entry is left in memory and in the
\* file
C33_Witness ==
    /\ last.op = "history delete"
    /\ last.arg = 0
    /\ last.n = 2
    /\ Len(df.rows) = 1
    /\ Len(file.lines) = 2


\* C34: search_history of a term with one of the characters [ ( . * +
\* returns the entries that have the term, character for character, in
\* the text of a field, and leaves history and file as they were
C34_SearchIsLiteral ==
    [][(/\ last'.op = "search_history"
        /\ \E i \in 1..Len(last'.arg) : last'.arg[i] \in {"[", "(", ".", "*", "+"}) =>
          /\ ret'.rows = Matching(df.rows, last'.arg)
          /\ df' = df
          /\ file' = file]_vars


\* C35: when App() has returned, the file holds the entries it held before
\* followed by one entry with operation 'add', inputs '[1, 2]' and result
\* 3, and the history in memory is what the file holds
C35_SampleRecorded ==
    [][(pc = "NEW" /\ pc' = "INIT") =>
          LET n == IF file.exists THEN Len(file.lines) - 1 ELSE 0
              new == df'.rows[n + 1]
          IN  /\ file'.exists
              /\ Len(file'.lines) = n + 2
              /\ \A i \in 1..(n + 1) :
                    i <= Len(file.lines) => file'.lines[i] = file.lines[i]
              /\ Len(df'.rows) = n + 1
              /\ new[2] = StrCell(s_add)
              /\ new[3] = StrCell(<<"[", "1", ",", " ", "2", "]">>)
              /\ new[4].n = 3
              /\ file' = ToCsv(df')]_vars


\* C36: the menu command prints the names that are in the registry when it
\* executes, each of them and no other, also those registered after the
\* instance of the menu command was made, and leaves registry, history
\* and file as they were
C36_MenuListsRegistry ==
    [][(dispatched' # dispatched /\ dispatched'[Len(dispatched')] = s_menu) =>
          /\ stdout'.msg = "Available Commands:"
          /\ Range(stdout'.rows) = DOMAIN commands
          /\ stdout'.n = Cardinality(DOMAIN commands)
          /\ commands' = commands
          /\ df' = df
          /\ file' = file]_vars

\* 'greet' was registered when the registry held the names of the five
\* plugins, the menu among them, and the menu lists six names with it
C36_Witness ==
    /\ last.op = "register_command"
    /\ last.arg[1] = s_greet
    /\ last.n = 5
    /\ dispatched = <<s_menu>>
    /\ stdout.n = 6
    /\ s_greet \in Range(stdout.rows)
    /\ s_menu \in Range(stdout.rows)


\* the number a line stands for, of the lines '1', '2.0' and ' 2 ', and
\* -1 for a line that is not a number
NumberOn(text) ==
    IF text = <<"1">> THEN 1
    ELSE IF text \in {<<"2", ".", "0">>, <<" ", "2", " ">>} THEN 2
    ELSE -1

\* C37: at a prompt for a number, a line that is not a number leaves the
\* command at the same prompt with the message printed, nothing raised
\* and history and file as they were; the first line that is a number
\* ends the prompt with that number as its value, whatever was entered
\* before it
C37_GetFloatReprompts ==
    [][(pc \in {"FIRST_NUMBER", "SECOND_NUMBER"}) =>
          LET v == NumberOn(user_input'.text)
          IN  /\ err' = "None"
              /\ v = -1 =>
                    /\ pc' = pc
                    /\ last' = last
                    /\ stdout'.msg = "Invalid Value. Please Try Again."
                    /\ df' = df /\ file' = file
              /\ (v # -1 /\ pc = "FIRST_NUMBER") =>
                    /\ pc' = "SECOND_NUMBER"
                    /\ last'.arg = <<v>>
                    /\ df' = df /\ file' = file
              /\ (v # -1 /\ pc = "SECOND_NUMBER") =>
                    /\ pc' = "NEW"
                    /\ last'.arg = <<last.arg[1], v>>
                    /\ Len(df'.rows) >= 1
                    /\ df'.rows[Len(df'.rows)][4].n =
                          ResultOf(last.op, last.arg[1], v)]_vars

\* add: '1' was taken as the first number, then 'x' was refused at the
\* second prompt, where the command still is, with nothing recorded
C37_Witness ==
    /\ pc = "SECOND_NUMBER"
    /\ last.op = "AddCommand"
    /\ last.arg = <<1>>
    /\ user_input.text = <<"x">>
    /\ stdout.msg = "Invalid Value. Please Try Again."
    /\ Len(df.rows) = 0


\* C38: where the file can be written, save_history returns true and the
\* file holds the history, whatever the configured path, also one without
\* a directory such as test_history.csv
C38_SavesWithoutDirectory ==
    [][last'.op = "save_history" =>
          /\ ret' = "True"
          /\ file'.exists
          /\ file' = ToCsv(df)]_vars


\* the place of the class among the classes load_plugins has called
PlaceIn(made, cls) == CHOOSE p \in 1..Len(made) : made[p] = cls

\* C39: load_plugins adds at most one key for each package, and of a
\* package that exposes several classes derived from Command it calls
\* each in the order of dir() and registers each under the name of the
\* package, so that the one whose name comes last is the one registered
C39_LastClassRemains ==
    [][Loaded =>
        /\ Cardinality(DOMAIN commands' \ DOMAIN commands) <=
              Cardinality({i \in 1..Len(loader'.dir) : loader'.dir[i].is_pkg})
        /\ \A i \in 1..Len(loader'.dir) :
              LET m == loader'.dir[i]
                  J == {j \in 1..Len(m.items) :
                          m.items[j].kind = "subclass" /\ m.items[j].init = "ok"}
              IN  (m.is_pkg /\ m.imports /\ Cardinality(J) >= 2) =>
                    /\ \A j \in J, k \in J :
                          j < k => PlaceIn(loader'.made, m.items[j].name)
                                     < PlaceIn(loader'.made, m.items[k].name)
                    /\ \A j \in J :
                          commands'[m.name].cls = m.items[j].name
                              <=> \A k \in J : k <= j
                    /\ \A name \in DOMAIN commands' :
                          commands'[name].cls \in {m.items[j].name : j \in J}
                              => (name = m.name \/ Kept(name))]_vars

\* extra exposes First and Second, both can be constructed and both were
\* called: Second is registered under extra, First under no name
C39_Witness ==
    /\ pc = "READING_INPUT"
    /\ last.op # "register_command"
    /\ DOMAIN commands = {s_add, s_extra, s_history, s_menu, s_multiply, s_sub}
    /\ "First" \in Range(loader.made)
    /\ "Second" \in Range(loader.made)
    /\ commands[s_extra].cls = "Second"
    /\ \A name \in DOMAIN commands : commands[name].cls # "First"

=============================================================================
